---- MODULE Spec2Model ----
(***************************************************************************)
(* A model of the concourse-github-pr-approval-resource: the predicates of *)
(* the Source configuration, the check step (Check) and the get step (In). *)
(***************************************************************************)
EXTENDS Integers, Sequences, FiniteSets, TLC

VARIABLES
  source,      \* req.Source of the running command
  github,      \* what the hosting platform holds: pull requests, comments, reviews
  client,      \* the api.GithubClient: unreachable team endpoints, warmed teams
  pc,          \* position of Check
  pulls,       \* Check: result of ListPullRequests
  idx,         \* Check: index of the next pull request of the loop
  comments,    \* Check: the last result of ListPullRequestComments
  reviews,     \* Check: the last result of ListPullRequestReviews
  version,     \* Check: the loop's current *Version
  versions,    \* Check: the CheckResponse being built
  res,         \* Check: what it returned: "none" while running, "ok", "error"
  hostingErr,  \* a Hosting Client call of this run has returned an error
  run,         \* number of the Check run (SpecTwice runs Check twice)
  prev,        \* the list the previous Check run returned
  prevRes,     \* what the previous Check run returned: "none", "ok", "error"
  reqVersion,  \* req.Version of the CheckRequest
  listed,      \* Check: the comment and review listings requested so far
  stdout,      \* what the check command has written to standard output
  inReq,       \* In: the request, its Version and Params
  inPc,        \* position of In
  inApprovedBy,\* In: req.Version.approvedBy, once decoded
  inReviewedBy,\* In: req.Version.reviewedBy, once decoded
  inIdx,       \* In: index of the next Response of the running loop
  inTotals,    \* In: metadata.TotalApprovals and metadata.TotalReviews
  gitCalls,    \* In: the operations of the api.GitClient invoked so far
  inRes,       \* In: what it returned: "none" while running, "ok", "error"
  inErr,       \* In: the kind of the error it returned
  inMsgs,      \* In: the Messages approvedBy and reviewedBy
  inMetadata,  \* In: serializedMetadata
  files,       \* In: the files and directories of the output directory
  inStdout,    \* what the in command has written to standard output
  fnIn,        \* the arguments of the function under evaluation
  fnOut        \* its result

checkVars == <<source, github, client, pc, pulls, idx, comments, reviews,
               version, versions, res, hostingErr, run, prev, prevRes,
               reqVersion, listed, stdout>>

inVars == <<inReq, inPc, inApprovedBy, inReviewedBy, inIdx, inTotals, gitCalls,
            inRes, inErr, inMsgs, inMetadata, files, inStdout>>

fnVars == <<fnIn, fnOut>>

vars == <<checkVars, inVars, fnVars>>

-----------------------------------------------------------------------------
(* Bounds of the model *)

\* pull requests the listing returns, at most
MaxPulls == 2
\* timestamps of comments and reviews are 1..MaxTime
MaxTime == 2
\* min_approvals and min_reviews range over -1..MaxMin
MaxMin == 2
\* entries of a configured list of states or labels, labels of a pull request
MaxList == 2
\* Responses of an encoded list
MaxResponses == 2
\* Fields added to a Metadata
MaxFields == 3

-----------------------------------------------------------------------------
(* Small helpers *)

Max(a, b) == IF a > b THEN a ELSE b

Contains(seq, x) == \E k \in 1..Len(seq) : seq[k] = x

SeqsUpTo(S, n) == UNION {[1..k -> S] : k \in 0..n}

-----------------------------------------------------------------------------
(* strconv: decimal strings are sequences of digit characters *)

Digit(d) == CASE d = 0 -> "0" [] d = 1 -> "1" [] d = 2 -> "2" [] d = 3 -> "3"
              [] d = 4 -> "4" [] d = 5 -> "5" [] d = 6 -> "6" [] d = 7 -> "7"
              [] d = 8 -> "8" [] d = 9 -> "9"

DigitValue(ch) == CASE ch = "0" -> 0 [] ch = "1" -> 1 [] ch = "2" -> 2
                    [] ch = "3" -> 3 [] ch = "4" -> 4 [] ch = "5" -> 5
                    [] ch = "6" -> 6 [] ch = "7" -> 7 [] ch = "8" -> 8
                    [] ch = "9" -> 9 [] OTHER -> -1

RECURSIVE FormatNat(_)
FormatNat(n) == IF n < 10 THEN <<Digit(n)>>
                ELSE Append(FormatNat(n \div 10), Digit(n % 10))

\* strconv.FormatInt(n, 10) and strconv.Itoa(n)
FormatInt(n) == IF n < 0 THEN <<"-">> \o FormatNat(0 - n) ELSE FormatNat(n)

RECURSIVE ParseDigits(_, _)
ParseDigits(s, acc) ==
  IF Len(s) = 0 THEN acc
  ELSE ParseDigits(Tail(s), 10 * acc + DigitValue(Head(s)))

\* strconv.ParseInt(s, 10, 64): the value, and 0 with an error for a string
\* that is not a decimal number (the callers drop the error)
ParseInt(s) ==
  LET neg  == Len(s) > 0 /\ Head(s) = "-"
      body == IF Len(s) > 0 /\ (Head(s) = "-" \/ Head(s) = "+") THEN Tail(s) ELSE s
      ok   == Len(body) > 0 /\ \A k \in 1..Len(body) : DigitValue(body[k]) >= 0
  IN IF ~ok THEN [n |-> 0, err |-> TRUE]
     ELSE [n |-> IF neg THEN 0 - ParseDigits(body, 0) ELSE ParseDigits(body, 0),
           err |-> FALSE]

-----------------------------------------------------------------------------
(* strings.ToLower on the review states GitHub and the configuration use *)

ToLower(s) == CASE s = "APPROVED" -> "approved"
                [] s = "Approved" -> "approved"
                [] s = "COMMENTED" -> "commented"
                [] s = "CHANGES_REQUESTED" -> "changes_requested"
                [] OTHER -> s

\* regexp.Match(c, body): an unanchored search. A body is a sequence of words
\* and a pattern a record whose lit is the word it searches for.
RegexpMatch(c, body) == \E k \in 1..Len(body) : body[k] = c.lit

-----------------------------------------------------------------------------
(* The predicates of Source *)

requestsState_NoIgnore(src, state) ==
  IF Len(src.States) = 0 THEN state = "open" ELSE Contains(src.States, state)

requestsState_AllWhenEmpty(src, state) ==
  LET ret == IF Len(src.States) = 0 THEN TRUE ELSE Contains(src.States, state)
  IN IF Contains(src.IgnoreStates, state) THEN FALSE ELSE ret

\* requestsState checks whether the source requests this particular state
requestsState(src, state) ==
  LET ret == IF Len(src.States) = 0 THEN state = "open"
             ELSE Contains(src.States, state)
  IN IF Contains(src.IgnoreStates, state) THEN FALSE ELSE ret

requestsReviewState_CaseSensitive(src, state) == Contains(src.ReviewStates, state)

requestsReviewState_EmptyIsAll(src, state) ==
  IF Len(src.ReviewStates) = 0 THEN TRUE
  ELSE \E k \in 1..Len(src.ReviewStates) : ToLower(state) = ToLower(src.ReviewStates[k])

\* requestsReviewState checks whether the PR review matches the desired state
requestsReviewState(src, state) ==
  \E k \in 1..Len(src.ReviewStates) : ToLower(state) = ToLower(src.ReviewStates[k])

requestsLabels_NoIgnore(src, labels) ==
  IF Len(src.Labels) = 0 THEN TRUE
  ELSE \E i \in 1..Len(src.Labels) : Contains(labels, src.Labels[i])

\* requestsLabels checks whether the source requests these set of labels
requestsLabels(src, labels) ==
  LET ret == IF Len(src.Labels) = 0 THEN TRUE
             ELSE \E i \in 1..Len(src.Labels) : Contains(labels, src.Labels[i])
  IN IF \E i \in 1..Len(src.IgnoreLabels) : Contains(labels, src.IgnoreLabels[i])
     THEN FALSE ELSE ret

\* requestsReviewerRegex determines if the source requests this reviewer regex
requestsReviewerRegex(src, body) ==
  IF Len(src.ReviewerComments) = 0 THEN TRUE
  ELSE \E k \in 1..Len(src.ReviewerComments) : RegexpMatch(src.ReviewerComments[k], body)

\* requestsApproverRegex determines if the source requests this approver regex
requestsApproverRegex(src, body) ==
  IF Len(src.ApproverComments) = 0 THEN TRUE
  ELSE \E k \in 1..Len(src.ApproverComments) : RegexpMatch(src.ApproverComments[k], body)

\* The members of the teams of the organisation
TeamMembers(team) == CASE team = "maintainers" -> {"alice"}
                       [] team = "reviewers" -> {"bob"}
                       [] OTHER -> {}

UserMemberOfTeam_MemoryOnly(c, username, team) ==
  IF team \notin c.warm
  THEN [ok |-> FALSE, err |-> FALSE]
  ELSE [ok |-> username \in TeamMembers(team), err |-> FALSE]

\* api.GithubClient.UserMemberOfTeam(username, team): (ok, err). A team whose
\* members ListTeamMembers has fetched is answered from memory; otherwise the
\* lookup is a call, which fails when the team's endpoint is unreachable.
UserMemberOfTeam(c, username, team) ==
  IF team \notin c.warm /\ team \in c.down
  THEN [ok |-> FALSE, err |-> TRUE]
  ELSE [ok |-> username \in TeamMembers(team), err |-> FALSE]

\* requestsReviewerTeam determines if the source requests this reviewer team
requestsReviewerTeam(src, c, username) ==
  \/ Len(src.ReviewerTeams) = 0
  \/ \E k \in 1..Len(src.ReviewerTeams) :
        UserMemberOfTeam(c, username, src.ReviewerTeams[k]).ok

\* requestsApproverTeam determines if the source requests this approver team
requestsApproverTeam(src, c, username) ==
  \/ Len(src.ApproverTeams) = 0
  \/ \E k \in 1..Len(src.ApproverTeams) :
        UserMemberOfTeam(c, username, src.ApproverTeams[k]).ok

\* Whether the loop of requests*Team over teams made a lookup that failed: it
\* stops at the first team that answers ok.
teamLookupFailed(teams, c, username) ==
  \E k \in 1..Len(teams) :
     /\ UserMemberOfTeam(c, username, teams[k]).err
     /\ \A j \in 1..(k - 1) : ~UserMemberOfTeam(c, username, teams[j]).ok

\* requestsApproveState: Check calls it, the sources do not hold it; the
\* design treats approvals as not gated by state.
requestsApproveState(src, state) == TRUE

hasMinReviewers_NoFloor(src, numReviewers) == numReviewers >= src.MinReviews

\* hasMinReviewers determines whether the supplied list meets the requested
\* minimum
hasMinReviewers(src, numReviewers) ==
  LET min == IF src.MinReviews > 1 THEN src.MinReviews ELSE 1
  IN numReviewers >= min

hasMinApprovers_NoFloor(src, numApprovers) == numApprovers >= src.MinApprovals

\* hasMinApprovers determines whether the supplied list meets the requested
\* minimum
hasMinApprovers(src, numApprovers) ==
  LET min == IF src.MinApprovals > 1 THEN src.MinApprovals ELSE 1
  IN numApprovers >= min

-----------------------------------------------------------------------------
(* encoding/json on []*Response. A JSON text is a sequence of tokens: a    *)
(* punctuation mark or literal, or a string with its content.              *)

Tok(p) == [k |-> "punct", s |-> <<p>>]
Str(s) == [k |-> "string", s |-> s]

\* The zero Response
ZeroResponse == [ReviewID |-> <<>>, CommentID |-> <<>>, CreatedAt |-> <<>>]

\* One Response, with the keys of its json tags in field order
MarshalResponse(r) ==
  << Tok("{"), Str(<<"review_id">>), Tok(":"), Str(r.ReviewID), Tok(","),
     Str(<<"comment_id">>), Tok(":"), Str(r.CommentID), Tok(","),
     Str(<<"created_at">>), Tok(":"), Str(r.CreatedAt), Tok("}") >>

RECURSIVE MarshalElems(_)
MarshalElems(list) ==
  IF Len(list) = 1 THEN MarshalResponse(list[1])
  ELSE MarshalResponse(list[1]) \o <<Tok(",")>> \o MarshalElems(Tail(list))

Marshal_DropLast(list) ==
  IF Len(list) <= 1 THEN <<Tok("null")>>
  ELSE <<Tok("[")>> \o MarshalElems(SubSeq(list, 1, Len(list) - 1)) \o <<Tok("]")>>

\* json.Marshal(version.approvedBy): a slice nothing was appended to is nil
\* and encodes as null
Marshal(list) ==
  IF Len(list) = 0 THEN <<Tok("null")>>
  ELSE <<Tok("[")>> \o MarshalElems(list) \o <<Tok("]")>>

\* A key's value stored into the Response: a key that is no json tag of
\* Response is skipped, and null leaves the field as it is
SetField(r, key, val) ==
  IF val = Tok("null") THEN r
  ELSE IF key = <<"review_id">> THEN [r EXCEPT !.ReviewID = val.s]
  ELSE IF key = <<"comment_id">> THEN [r EXCEPT !.CommentID = val.s]
  ELSE IF key = <<"created_at">> THEN [r EXCEPT !.CreatedAt = val.s]
  ELSE r

DecodeError == [err |-> TRUE, r |-> ZeroResponse, list |-> <<>>, p |-> 0]

\* The members of an object from position p on: [err, r, p], p past its "}"
RECURSIVE ParsePairs(_, _, _)
ParsePairs(text, p, r) ==
  IF p + 3 > Len(text) THEN DecodeError
  ELSE IF text[p].k # "string" \/ text[p + 1] # Tok(":") THEN DecodeError
  ELSE IF text[p + 2].k # "string" /\ text[p + 2] # Tok("null") THEN DecodeError
  ELSE LET r2 == SetField(r, text[p].s, text[p + 2])
       IN IF text[p + 3] = Tok("}")
          THEN [err |-> FALSE, r |-> r2, list |-> <<>>, p |-> p + 4]
          ELSE IF text[p + 3] = Tok(",") THEN ParsePairs(text, p + 4, r2)
          ELSE DecodeError

\* One element of the array at position p: [err, r, p]
ParseObject(text, p) ==
  IF p + 1 > Len(text) \/ text[p] # Tok("{") THEN DecodeError
  ELSE IF text[p + 1] = Tok("}")
       THEN [err |-> FALSE, r |-> ZeroResponse, list |-> <<>>, p |-> p + 2]
       ELSE ParsePairs(text, p + 1, ZeroResponse)

\* The elements of an array from position p on, up to the "]" that ends the text
RECURSIVE ParseElems(_, _, _)
ParseElems(text, p, acc) ==
  LET o == ParseObject(text, p)
  IN IF o.err \/ o.p > Len(text) THEN DecodeError
     ELSE IF text[o.p] = Tok("]")
          THEN IF o.p = Len(text)
               THEN [err |-> FALSE, r |-> ZeroResponse, list |-> Append(acc, o.r), p |-> o.p]
               ELSE DecodeError
          ELSE IF text[o.p] = Tok(",") THEN ParseElems(text, o.p + 1, Append(acc, o.r))
          ELSE DecodeError

Unmarshal_KeepFirst(text) ==
  IF text = <<Tok("null")>> THEN [err |-> FALSE, list |-> <<>>]
  ELSE IF Len(text) >= 2 /\ text[1] = Tok("[")
       THEN IF text[2] = Tok("]")
            THEN [err |-> Len(text) # 2, list |-> <<>>]
            ELSE LET e == ParseElems(text, 2, <<>>)
                 IN [err |-> e.err,
                     list |-> IF Len(e.list) > 1 THEN <<e.list[1]>> ELSE e.list]
       ELSE [err |-> TRUE, list |-> <<>>]

\* json.Unmarshal(text, &list) for a nil list of *Response: [err, list]
Unmarshal(text) ==
  IF text = <<Tok("null")>> THEN [err |-> FALSE, list |-> <<>>]
  ELSE IF Len(text) >= 2 /\ text[1] = Tok("[")
       THEN IF text[2] = Tok("]")
            THEN [err |-> Len(text) # 2, list |-> <<>>]
            ELSE LET e == ParseElems(text, 2, <<>>)
                 IN [err |-> e.err, list |-> e.list]
       ELSE [err |-> TRUE, list |-> <<>>]

-----------------------------------------------------------------------------
(* Check: the body of the loop over the pull requests *)

\* The Version the loop starts a pull request with
NewVersion(pull) ==
  [PrID |-> FormatInt(pull.Number), ApprovedBy |-> <<>>, approvedBy |-> <<>>,
   ReviewedBy |-> <<>>, reviewedBy |-> <<>>, lastUpdated |-> 0]

\* The nil *Version Check starts with
NilVersion ==
  [PrID |-> <<>>, ApprovedBy |-> <<>>, approvedBy |-> <<>>,
   ReviewedBy |-> <<>>, reviewedBy |-> <<>>, lastUpdated |-> 0]

CommentResponse(comment) ==
  [ReviewID |-> <<>>, CommentID |-> FormatInt(comment.ID),
   CreatedAt |-> FormatInt(comment.CreatedAt)]

ReviewResponse(review) ==
  [ReviewID |-> FormatInt(review.ID), CommentID |-> <<>>,
   CreatedAt |-> FormatInt(review.SubmittedAt)]

passesFilters_DraftsPass(src, pull) ==
  /\ requestsState(src, pull.State)
  /\ requestsLabels(src, pull.Labels)
  /\ ~(src.OnlyMergeable /\ ~pull.Mergeable)

\* What the pull request passes before its comments are listed
passesFilters(src, pull) ==
  /\ requestsState(src, pull.State)
  /\ requestsLabels(src, pull.Labels)
  /\ ~(src.OnlyMergeable /\ ~pull.Mergeable)
  /\ ~pull.Draft

checkComment_ElseIf(src, c, st, comment) ==
  LET aTeam  == /\ requestsApproverRegex(src, comment.Body)
                /\ requestsApproverTeam(src, c, comment.Login)
      v1     == IF aTeam
                THEN [st.v EXCEPT !.lastUpdated = Max(@, comment.CreatedAt),
                                  !.approvedBy = Append(@, CommentResponse(comment))]
                ELSE st.v
      rTeam  == /\ ~aTeam
                /\ requestsReviewerRegex(src, comment.Body)
                /\ requestsReviewerTeam(src, c, comment.Login)
      v2     == IF rTeam
                THEN [v1 EXCEPT !.lastUpdated = Max(@, comment.CreatedAt),
                                !.reviewedBy = Append(@, CommentResponse(comment))]
                ELSE v1
  IN [v |-> v2, e |-> st.e]

\* One comment of the loop over the comments. st is [v, e]: the Version so
\* far, and whether a team lookup has failed.
checkComment(src, c, st, comment) ==
  LET aRegex == requestsApproverRegex(src, comment.Body)
      aTeam  == aRegex /\ requestsApproverTeam(src, c, comment.Login)
      skip   == aTeam /\ ~requestsApproveState(src, "comment")
      v1     == IF aTeam /\ ~skip
                THEN [st.v EXCEPT !.lastUpdated = Max(@, comment.CreatedAt),
                                  !.approvedBy = Append(@, CommentResponse(comment))]
                ELSE st.v
      rRegex == ~skip /\ requestsReviewerRegex(src, comment.Body)
      rTeam  == rRegex /\ requestsReviewerTeam(src, c, comment.Login)
      v2     == IF rTeam
                THEN [v1 EXCEPT !.lastUpdated = Max(@, comment.CreatedAt),
                                !.reviewedBy = Append(@, CommentResponse(comment))]
                ELSE v1
      e      == \/ st.e
                \/ aRegex /\ teamLookupFailed(src.ApproverTeams, c, comment.Login)
                \/ rRegex /\ teamLookupFailed(src.ReviewerTeams, c, comment.Login)
  IN [v |-> v2, e |-> e]

RECURSIVE checkComments(_, _, _, _)
checkComments(src, c, st, list) ==
  IF Len(list) = 0 THEN st
  ELSE checkComments(src, c, checkComment(src, c, st, Head(list)), Tail(list))

checkReview_StateGatesApproval(src, c, st, review) ==
  LET aTeam  == /\ requestsApproverRegex(src, review.Body)
                /\ requestsApproverTeam(src, c, review.Login)
                /\ requestsReviewState(src, review.State)
      v1     == IF aTeam
                THEN [st.v EXCEPT !.lastUpdated = Max(@, review.SubmittedAt),
                                  !.approvedBy = Append(@, ReviewResponse(review))]
                ELSE st.v
      rOk    == /\ requestsReviewerRegex(src, review.Body)
                /\ requestsReviewerTeam(src, c, review.Login)
                /\ requestsReviewState(src, review.State)
      v2     == IF rOk
                THEN [v1 EXCEPT !.lastUpdated = Max(@, review.SubmittedAt),
                                !.reviewedBy = Append(@, ReviewResponse(review))]
                ELSE v1
  IN [v |-> v2, e |-> st.e]

checkReview_NoStateGate(src, c, st, review) ==
  LET aTeam  == /\ requestsApproverRegex(src, review.Body)
                /\ requestsApproverTeam(src, c, review.Login)
      v1     == IF aTeam
                THEN [st.v EXCEPT !.lastUpdated = Max(@, review.SubmittedAt),
                                  !.approvedBy = Append(@, ReviewResponse(review))]
                ELSE st.v
      rOk    == /\ requestsReviewerRegex(src, review.Body)
                /\ requestsReviewerTeam(src, c, review.Login)
      v2     == IF rOk
                THEN [v1 EXCEPT !.lastUpdated = Max(@, review.SubmittedAt),
                                !.reviewedBy = Append(@, ReviewResponse(review))]
                ELSE v1
  IN [v |-> v2, e |-> st.e]

\* One review of the loop over the reviews
checkReview(src, c, st, review) ==
  LET aRegex == requestsApproverRegex(src, review.Body)
      aTeam  == aRegex /\ requestsApproverTeam(src, c, review.Login)
      skip   == aTeam /\ ~requestsApproveState(src, review.State)
      v1     == IF aTeam /\ ~skip
                THEN [st.v EXCEPT !.lastUpdated = Max(@, review.SubmittedAt),
                                  !.approvedBy = Append(@, ReviewResponse(review))]
                ELSE st.v
      rRegex == ~skip /\ requestsReviewerRegex(src, review.Body)
      rTeam  == rRegex /\ requestsReviewerTeam(src, c, review.Login)
      rOk    == rTeam /\ requestsReviewState(src, review.State)
      v2     == IF rOk
                THEN [v1 EXCEPT !.lastUpdated = Max(@, review.SubmittedAt),
                                !.reviewedBy = Append(@, ReviewResponse(review))]
                ELSE v1
      e      == \/ st.e
                \/ aRegex /\ teamLookupFailed(src.ApproverTeams, c, review.Login)
                \/ rRegex /\ teamLookupFailed(src.ReviewerTeams, c, review.Login)
  IN [v |-> v2, e |-> e]

RECURSIVE checkReviews(_, _, _, _)
checkReviews(src, c, st, list) ==
  IF Len(list) = 0 THEN st
  ELSE checkReviews(src, c, checkReview(src, c, st, Head(list)), Tail(list))

saveVersion_NoMinimum(src, list, v) ==
  Append(list, [v EXCEPT !.ApprovedBy = Marshal(v.approvedBy),
                         !.ReviewedBy = Marshal(v.reviewedBy)])

saveVersion_SkipSupplied(src, list, v) ==
  IF /\ hasMinApprovers(src, Len(v.approvedBy))
     /\ hasMinReviewers(src, Len(v.reviewedBy))
     /\ v.PrID # reqVersion.PrID
  THEN Append(list, [v EXCEPT !.ApprovedBy = Marshal(v.approvedBy),
                              !.ReviewedBy = Marshal(v.reviewedBy)])
  ELSE list

\* "Only save the version if it matches the desired state": the list with the
\* Version appended, its two lists encoded, or the list as it was
saveVersion(src, list, v) ==
  IF hasMinApprovers(src, Len(v.approvedBy)) /\ hasMinReviewers(src, Len(v.reviewedBy))
  THEN Append(list, [v EXCEPT !.ApprovedBy = Marshal(v.approvedBy),
                              !.ReviewedBy = Marshal(v.reviewedBy)])
  ELSE list

\* The Version as Check keeps it once saved (the pointer's own fields too)
savedVersion(src, v) ==
  IF hasMinApprovers(src, Len(v.approvedBy)) /\ hasMinReviewers(src, Len(v.reviewedBy))
  THEN [v EXCEPT !.ApprovedBy = Marshal(v.approvedBy),
                 !.ReviewedBy = Marshal(v.reviewedBy)]
  ELSE v

-----------------------------------------------------------------------------
(* sort.Slice(versions, less): for the lengths of the model (up to 12) the  *)
(* library sorts by insertion.                                             *)

less(a, b) == a.lastUpdated < b.lastUpdated

\* data.Swap(j, j-1) while j > 1 and less(list[j], list[j-1])
RECURSIVE sinkDown(_, _)
sinkDown(list, j) ==
  IF j > 1 /\ less(list[j], list[j - 1])
  THEN sinkDown([list EXCEPT ![j] = list[j - 1], ![j - 1] = list[j]], j - 1)
  ELSE list

RECURSIVE insertionSort(_, _)
insertionSort(list, i) ==
  IF i > Len(list) THEN list ELSE insertionSort(sinkDown(list, i), i + 1)

sortVersions_None(list) == list

sortVersions(list) == insertionSort(list, 2)

-----------------------------------------------------------------------------
(* In: the captures of a message, the Metadata and the files                *)
(*                                                                         *)
(* A pattern with capture groups is a record: lit is the word it searches  *)
(* for and groups the names of the groups that follow it, each capturing   *)
(* one word ("" is the name of a group without a name). Names of fields    *)
(* and files and their values are sequences of pieces of text.             *)

\* make(map[string]string)
EmptyMap == [k \in {} |-> <<>>]

\* compRegEx.FindStringSubmatch(body): the leftmost match and the text of its
\* groups, or nil
FindStringSubmatch(regEx, body) ==
  LET starts == {p \in 1..Len(body) :
                   body[p] = regEx.lit /\ p + Len(regEx.groups) <= Len(body)}
  IN IF starts = {} THEN <<>>
     ELSE LET p == CHOOSE q \in starts : \A r \in starts : q <= r
          IN <<<<regEx.lit>>>> \o [i \in 1..Len(regEx.groups) |-> <<body[p + i]>>]

\* compRegEx.SubexpNames(): the name of the whole match, "", then the names
\* of the groups
SubexpNames(regEx) == <<"">> \o regEx.groups

\* The loop of getParams from the index i (counted from 0 as in the code)
RECURSIVE getParamsFrom(_, _, _, _)
getParamsFrom(names, match, i, paramsMap) ==
  IF i >= Len(names) THEN paramsMap
  ELSE getParamsFrom(names, match, i + 1,
         IF i > 0 /\ i <= Len(match)
         THEN (names[i + 1] :> match[i + 1]) @@ paramsMap
         ELSE paramsMap)

\* getParams(regEx, body)
getParams(regEx, body) ==
  getParamsFrom(SubexpNames(regEx), FindStringSubmatch(regEx, body), 0, EmptyMap)

\* for k, v := range getParams(r, body) { message.Matches[k] = v }
setMatches_KeepFirst(matches, params) == matches @@ params

setMatches(matches, params) == params @@ matches

\* message.Matches after the loop over the configured patterns from index i
RECURSIVE matchesFrom(_, _, _, _)
matchesFrom(regex, body, i, matches) ==
  IF i > Len(regex) THEN matches
  ELSE matchesFrom(regex, body, i + 1,
                   setMatches(matches, getParams(regex[i], body)))

\* parseReview: the Message of a review
parseReview(review, regex) ==
  [CommentID |-> 0, ReviewID |-> review.ID, Body |-> review.Body,
   UserLogin |-> review.Login, Matches |-> matchesFrom(regex, review.Body, 1, EmptyMap)]

\* parseComment: the Message of a comment
parseComment(comment, regex) ==
  [CommentID |-> comment.ID, ReviewID |-> 0, Body |-> comment.Body,
   UserLogin |-> comment.Login, Matches |-> matchesFrom(regex, comment.Body, 1, EmptyMap)]

\* fmt.Sprintf("%s_%d", k, i)
Sprintf(k, i) == (IF k = "" THEN <<>> ELSE <<k>>) \o <<"_">> \o FormatInt(i)

\* (m *Metadata) Add: *m = append(*m, &MetadataField{Name: name, Value: value})
Add(m, name, value) == Append(m, [Name |-> name, Value |-> value])

RECURSIVE GetFrom_LastWins(_, _, _)
GetFrom_LastWins(m, name, i) ==
  IF i < 1 THEN [val |-> <<>>, err |-> TRUE]
  ELSE IF name = m[i].Name THEN [val |-> m[i].Value, err |-> FALSE]
  ELSE GetFrom_LastWins(m, name, i - 1)

Get_LastWins(m, name) == GetFrom_LastWins(m, name, Len(m))

\* The range over *m of Get from position i: the value of the first field of
\* that name, or "" and the error "metadata index does not exist"
RECURSIVE GetFrom(_, _, _)
GetFrom(m, name, i) ==
  IF i > Len(m) THEN [val |-> <<>>, err |-> TRUE]
  ELSE IF name = m[i].Name THEN [val |-> m[i].Value, err |-> FALSE]
  ELSE GetFrom(m, name, i + 1)

\* (m *Metadata) Get
Get(m, name) == GetFrom(m, name, 1)

\* serializeStruct(metadata): a field per field of InMetadata, named by its
\* json tag, in the order of the struct
serializeStruct(metadata) ==
  << [Name |-> <<"pr_id">>, Value |-> FormatInt(metadata.PRID)],
     [Name |-> <<"pr_head_ref">>, Value |-> metadata.PRHeadRef],
     [Name |-> <<"pr_head_sha">>, Value |-> metadata.PRHeadSHA],
     [Name |-> <<"pr_base_ref">>, Value |-> metadata.PRBaseRef],
     [Name |-> <<"pr_base_sha">>, Value |-> metadata.PRBaseSHA],
     [Name |-> <<"total_approvals">>, Value |-> FormatInt(metadata.TotalApprovals)],
     [Name |-> <<"total_reviews">>, Value |-> FormatInt(metadata.TotalReviews)] >>

\* The orders in which a range over a map may go through its keys
RECURSIVE Orders(_)
Orders(keys) ==
  IF keys = {} THEN {<<>>}
  ELSE UNION { {<<k>> \o rest : rest \in Orders(keys \ {k})} : k \in keys }

matchFields_FromZero(message, i) ==
  { [j \in 1..Len(order) |->
       [Name |-> Sprintf(order[j], i - 1), Value |-> message.Matches[order[j]]]] :
    order \in Orders(DOMAIN message.Matches) }

\* The fields the range over message.Matches may add for the message at
\* position i (counted from 1), one sequence per order
matchFields(message, i) ==
  { [j \in 1..Len(order) |->
       [Name |-> Sprintf(order[j], i), Value |-> message.Matches[order[j]]]] :
    order \in Orders(DOMAIN message.Matches) }

\* The Metadata lists the loop over the messages from position i may build
RECURSIVE addMatches(_, _, _)
addMatches(lists, messages, i) ==
  IF i > Len(messages) THEN lists
  ELSE addMatches({l \o f : l \in lists, f \in matchFields(messages[i], i)},
                  messages, i + 1)

\* A file of the output directory and a directory of it
File(content) == [kind |-> "file", content |-> content]
Dir == [kind |-> "dir", content |-> <<>>]

\* ioutil.WriteFile and writeTextToFile: the file is created or truncated
WriteFile(fs, path, content) == (path :> File(content)) @@ fs

\* os.MkdirAll(path): the directory and the missing ones above it
MkdirAll(fs, path) ==
  [p \in DOMAIN fs \union {SubSeq(path, 1, n) : n \in 1..Len(path)} |->
     IF p \in DOMAIN fs THEN fs[p] ELSE Dir]

\* The loop over serializedMetadata that writes a file per field, from index i
RECURSIVE writeFields(_, _, _)
writeFields(fs, metadata, i) ==
  IF i > Len(metadata) THEN fs
  ELSE writeFields(WriteFile(fs, <<metadata[i].Name>>, metadata[i].Value),
                   metadata, i + 1)

\* serializeStruct(message) without the field "match", which writeMap skips
messageFields(message) ==
  << [Name |-> <<"comment_id">>, Value |-> FormatInt(message.CommentID)],
     [Name |-> <<"review_id">>, Value |-> FormatInt(message.ReviewID)],
     [Name |-> <<"body">>, Value |-> message.Body],
     [Name |-> <<"user_login">>, Value |-> <<message.UserLogin>>] >>

\* filepath.Join(dir, k): an empty element is left out
Join(dir, k) == IF k = "" THEN dir ELSE Append(dir, <<k>>)

\* The files of one message under its directory: those of its fields, then
\* those of the keys of its matches
RECURSIVE writeMatches(_, _, _, _)
writeMatches(fs, dir, message, keys) ==
  IF keys = {} THEN fs
  ELSE LET k == CHOOSE x \in keys : TRUE
       IN writeMatches(WriteFile(fs, Join(dir, k), message.Matches[k]), dir,
                       message, keys \ {k})

RECURSIVE writeMessageFields(_, _, _, _)
writeMessageFields(fs, dir, fields, i) ==
  IF i > Len(fields) THEN fs
  ELSE writeMessageFields(WriteFile(fs, Append(dir, fields[i].Name), fields[i].Value),
                          dir, fields, i + 1)

\* writeMap(messages, parent), every write succeeding, from position i
RECURSIVE writeMap(_, _, _, _)
writeMap(fs, messages, parent, i) ==
  IF i > Len(messages) THEN fs
  ELSE LET dir == <<<<parent>>, FormatInt(i)>>
           made == MkdirAll(fs, dir)
           withFields == writeMessageFields(made, dir, messageFields(messages[i]), 1)
       IN writeMap(writeMatches(withFields, dir, messages[i],
                                DOMAIN messages[i].Matches),
                   messages, parent, i + 1)

\* os.Create fails on the path of a directory: a message with a match under
\* the empty key makes writeMap fail
cannotWrite(message) == "" \in DOMAIN message.Matches

-----------------------------------------------------------------------------
(* The inputs of the model *)

Users == {"alice", "bob"}
Teams == {"maintainers", "reviewers"}

ApproverPattern == [lit |-> "approve"]
ReviewerPattern == [lit |-> "review"]

Bodies == {<<"approve">>, <<"review">>, <<"lgtm", "approve", "review">>, <<"lgtm">>}

ReviewStateValues == {"APPROVED", "COMMENTED"}

\* The number of the k-th pull request of the listing, and the ids of its
\* j-th comment and j-th review
PullNumber(k) == 8 + k
CommentIDOf(k, j) == 10 * k + j
ReviewIDOf(k, j) == 10 * k + 5 + j

DefaultSource ==
  [OnlyMergeable |-> FALSE, States |-> <<>>, Labels |-> <<>>,
   IgnoreStates |-> <<>>, IgnoreLabels |-> <<>>,
   MinApprovals |-> 0, ApproverComments |-> <<>>, ApproverTeams |-> <<>>,
   MinReviews |-> 0, ReviewerComments |-> <<>>, ReviewerTeams |-> <<>>,
   ReviewStates |-> <<>>]

\* A source that filters on every attribute of a pull request
StrictSource ==
  [DefaultSource EXCEPT !.OnlyMergeable = TRUE,
                        !.States = <<"open", "closed">>,
                        !.IgnoreStates = <<"closed">>,
                        !.Labels = <<"bug">>,
                        !.IgnoreLabels = <<"stale">>]

\* The attributes of a pull request the filters read
PullProfiles ==
  { [State |-> "open", Labels |-> <<"bug">>, Mergeable |-> TRUE, Draft |-> FALSE],
    [State |-> "closed", Labels |-> <<"bug">>, Mergeable |-> TRUE, Draft |-> FALSE],
    [State |-> "open", Labels |-> <<"bug", "stale">>, Mergeable |-> TRUE, Draft |-> FALSE],
    [State |-> "open", Labels |-> <<"bug">>, Mergeable |-> FALSE, Draft |-> FALSE],
    [State |-> "open", Labels |-> <<"bug">>, Mergeable |-> TRUE, Draft |-> TRUE] }

PassingProfile ==
  [State |-> "open", Labels |-> <<"bug">>, Mergeable |-> TRUE, Draft |-> FALSE]

\* The k-th pull request of the hosting platform, from its profile and its
\* messages: a message is [Body, Login, At] and a review has a State as well
MakeComments(k, msgs) ==
  [j \in 1..Len(msgs) |->
     [ID |-> CommentIDOf(k, j), Body |-> msgs[j].Body, Login |-> msgs[j].Login,
      CreatedAt |-> msgs[j].At]]

MakeReviews(k, msgs) ==
  [j \in 1..Len(msgs) |->
     [ID |-> ReviewIDOf(k, j), Body |-> msgs[j].Body, Login |-> msgs[j].Login,
      SubmittedAt |-> msgs[j].At, State |-> msgs[j].State]]

MakePull(k, p) ==
  [Number |-> PullNumber(k), State |-> p.profile.State, Labels |-> p.profile.Labels,
   Mergeable |-> p.profile.Mergeable, Draft |-> p.profile.Draft,
   comments |-> MakeComments(k, p.comments), reviews |-> MakeReviews(k, p.reviews)]

MakeGithub(ps) == [pulls |-> [k \in 1..Len(ps) |-> MakePull(k, ps[k])]]

CommentMsgs == [Body : Bodies, Login : Users, At : 1..MaxTime]
ReviewMsgs  == [Body : Bodies, Login : Users, At : 1..MaxTime, State : ReviewStateValues]

\* One pull request that passes the filters, with up to one comment and one
\* review of any kind, under every policy of regexes, teams and review states
PolicySources ==
  { [DefaultSource EXCEPT !.ApproverComments = rx[1], !.ReviewerComments = rx[2],
                          !.ApproverTeams = at, !.ReviewerTeams = rt,
                          !.ReviewStates = rs] :
      rx \in {<<<<>>, <<>>>>, <<<<ApproverPattern>>, <<ReviewerPattern>>>>},
      at \in {<<>>, <<"maintainers">>},
      rt \in {<<>>, <<"reviewers", "maintainers">>},
      rs \in {<<>>, <<"approved">>} }

PolicyGithubs ==
  { MakeGithub(<<[profile |-> PassingProfile, comments |-> cs, reviews |-> rs]>>) :
      cs \in SeqsUpTo(CommentMsgs, 1), rs \in SeqsUpTo(ReviewMsgs, 1) }

\* One pull request with zero to two approvals and reviews, under every pair
\* of minimums
MinimumSources ==
  { [DefaultSource EXCEPT !.ApproverComments = <<ApproverPattern>>,
                          !.ReviewerComments = <<ReviewerPattern>>,
                          !.ReviewStates = <<"approved">>,
                          !.MinApprovals = ma, !.MinReviews = mr] :
      ma \in -1..MaxMin, mr \in -1..MaxMin }

MinimumGithubs ==
  { MakeGithub(<<[profile |-> PassingProfile, comments |-> cs, reviews |-> rs]>>) :
      cs \in SeqsUpTo([Body : Bodies, Login : {"alice"}, At : {1}], 1),
      rs \in SeqsUpTo([Body : Bodies, Login : {"alice"}, At : {1},
                       State : {"APPROVED"}], 1) }

\* Up to MaxPulls pull requests of every profile, each with no message or with
\* one comment that approves and reviews
ListingSources == {DefaultSource, StrictSource}

ListingGithubs ==
  { MakeGithub(ps) :
      ps \in SeqsUpTo([profile : PullProfiles,
                       comments : SeqsUpTo([Body : {<<"lgtm">>}, Login : {"alice"},
                                            At : 1..MaxTime], 1),
                       reviews : {<<>>}], MaxPulls) }

-----------------------------------------------------------------------------
(* Check, step by step *)

\* The attributes ListPullRequests returns of a pull request
PullOf(p) == [Number |-> p.Number, State |-> p.State, Labels |-> p.Labels,
              Mergeable |-> p.Mergeable, Draft |-> p.Draft]

\* The zero Version: what a request without a version decodes to
NoVersion == [PrID |-> <<>>, ApprovedBy |-> <<>>, ReviewedBy |-> <<>>]

\* No request: the state of a command that is not running
NoRequest ==
  [Version |-> NoVersion,
   Params |-> [IntegrationTool |-> "", SkipDownload |-> FALSE, MapMetadata |-> FALSE]]

IdleIn ==
  /\ inReq = NoRequest
  /\ inPc = "idle"
  /\ inApprovedBy = <<>>
  /\ inReviewedBy = <<>>
  /\ inIdx = 1
  /\ inTotals = [TotalApprovals |-> 0, TotalReviews |-> 0]
  /\ gitCalls = <<>>
  /\ inRes = "none"
  /\ inErr = ""
  /\ inMsgs = [approvedBy |-> <<>>, reviewedBy |-> <<>>]
  /\ inMetadata = <<>>
  /\ files = [p \in {} |-> <<>>]
  /\ inStdout = <<>>

IdleFn ==
  /\ fnIn = [kind |-> "none"]
  /\ fnOut = [fn |-> "none"]

InitCheckWith(src, gh, down, v) ==
  /\ source = src
  /\ github = gh
  /\ client = [down |-> down, warm |-> {}]
  /\ pc = "newClient"
  /\ pulls = <<>>
  /\ idx = 1
  /\ comments = <<>>
  /\ reviews = <<>>
  /\ version = NilVersion
  /\ versions = <<>>
  /\ res = "none"
  /\ hostingErr = FALSE
  /\ run = 1
  /\ prev = <<>>
  /\ prevRes = "none"
  /\ reqVersion = v
  /\ listed = {}
  /\ stdout = <<>>
  /\ IdleIn
  /\ IdleFn

\* The first check of a resource: the request holds no version
InitCheck(src, gh, down) == InitCheckWith(src, gh, down, NoVersion)

InitPolicy ==
  \E src \in PolicySources, gh \in PolicyGithubs, down \in SUBSET Teams :
     InitCheck(src, gh, down)

InitMinimum ==
  \E src \in MinimumSources, gh \in MinimumGithubs : InitCheck(src, gh, {})

InitListing ==
  \E src \in ListingSources, gh \in ListingGithubs : InitCheck(src, gh, {})

Init == InitPolicy \/ InitMinimum \/ InitListing

\* return nil, err
ReturnError ==
  /\ pc' = "done"
  /\ res' = "error"

\* api.NewGithubClient succeeds
NewClientOk ==
  /\ pc = "newClient"
  /\ pc' = "listPulls"
  /\ UNCHANGED <<source, github, client, pulls, idx, comments, reviews, version,
                 versions, res, hostingErr, run, prev>>
  /\ UNCHANGED <<prevRes, reqVersion, listed, stdout>>
  /\ UNCHANGED <<inVars, fnVars>>

\* api.NewGithubClient fails
NewClientErr ==
  /\ pc = "newClient"
  /\ ReturnError
  /\ UNCHANGED <<source, github, client, pulls, idx, comments, reviews, version,
                 versions, hostingErr, run, prev>>
  /\ UNCHANGED <<prevRes, reqVersion, listed, stdout>>
  /\ UNCHANGED <<inVars, fnVars>>

\* client.ListPullRequests succeeds
ListPullRequestsOk ==
  /\ pc = "listPulls"
  /\ pulls' = [k \in 1..Len(github.pulls) |-> PullOf(github.pulls[k])]
  /\ pc' = "preWarm"
  /\ UNCHANGED <<source, github, client, idx, comments, reviews, version,
                 versions, res, hostingErr, run, prev>>
  /\ UNCHANGED <<prevRes, reqVersion, listed, stdout>>
  /\ UNCHANGED <<inVars, fnVars>>

\* client.ListPullRequests fails
ListPullRequestsErr ==
  /\ pc = "listPulls"
  /\ hostingErr' = TRUE
  /\ ReturnError
  /\ UNCHANGED <<source, github, client, pulls, idx, comments, reviews, version,
                 versions, run, prev>>
  /\ UNCHANGED <<prevRes, reqVersion, listed, stdout>>
  /\ UNCHANGED <<inVars, fnVars>>

\* The loop of ListTeamMembers over the reviewer teams, every call succeeding
\* (no call at all without pull requests)
PreWarmOk ==
  /\ pc = "preWarm"
  /\ client' = IF Len(pulls) > 0
               THEN [client EXCEPT !.warm = {source.ReviewerTeams[k] :
                                               k \in 1..Len(source.ReviewerTeams)}]
               ELSE client
  /\ pc' = "loop"
  /\ UNCHANGED <<source, github, pulls, idx, comments, reviews, version,
                 versions, res, hostingErr, run, prev>>
  /\ UNCHANGED <<prevRes, reqVersion, listed, stdout>>
  /\ UNCHANGED <<inVars, fnVars>>

\* A ListTeamMembers call of the loop fails
PreWarmErr ==
  /\ pc = "preWarm"
  /\ Len(pulls) > 0
  /\ \E failed \in 1..Len(source.ReviewerTeams) :
        client' = [client EXCEPT !.warm = {source.ReviewerTeams[k] :
                                             k \in 1..(failed - 1)}]
  /\ hostingErr' = TRUE
  /\ ReturnError
  /\ UNCHANGED <<source, github, pulls, idx, comments, reviews, version,
                 versions, run, prev>>
  /\ UNCHANGED <<prevRes, reqVersion, listed, stdout>>
  /\ UNCHANGED <<inVars, fnVars>>

\* The pull request is ignored: continue
LoopSkip ==
  /\ pc = "loop"
  /\ idx <= Len(pulls)
  /\ ~passesFilters(source, pulls[idx])
  /\ version' = NewVersion(pulls[idx])
  /\ idx' = idx + 1
  /\ UNCHANGED <<source, github, client, pc, pulls, comments, reviews,
                 versions, res, hostingErr, run, prev>>
  /\ UNCHANGED <<prevRes, reqVersion, listed, stdout>>
  /\ UNCHANGED <<inVars, fnVars>>

\* client.ListPullRequestComments fails
LoopCommentsErr ==
  /\ pc = "loop"
  /\ idx <= Len(pulls)
  /\ passesFilters(source, pulls[idx])
  /\ version' = NewVersion(pulls[idx])
  /\ hostingErr' = TRUE
  /\ ReturnError
  /\ UNCHANGED <<source, github, client, pulls, idx, comments, reviews,
                 versions, run, prev>>
  /\ listed' = listed \union {<<kind, pulls[idx].Number>> : kind \in {"comments"}}
  /\ UNCHANGED <<prevRes, reqVersion, stdout>>
  /\ UNCHANGED <<inVars, fnVars>>

\* The comments are listed and gone through, then client.ListPullRequestReviews
\* fails
LoopReviewsErr ==
  /\ pc = "loop"
  /\ idx <= Len(pulls)
  /\ passesFilters(source, pulls[idx])
  /\ comments' = github.pulls[idx].comments
  /\ version' = checkComments(source, client,
                              [v |-> NewVersion(pulls[idx]), e |-> FALSE],
                              comments').v
  /\ hostingErr' = TRUE
  /\ ReturnError
  /\ UNCHANGED <<source, github, client, pulls, idx, reviews, versions, run, prev>>
  /\ listed' = listed \union {<<kind, pulls[idx].Number>> : kind \in {"comments", "reviews"}}
  /\ UNCHANGED <<prevRes, reqVersion, stdout>>
  /\ UNCHANGED <<inVars, fnVars>>

\* The comments and the reviews are listed and gone through, and the Version
\* is saved if it has the minimums
LoopPull ==
  /\ pc = "loop"
  /\ idx <= Len(pulls)
  /\ passesFilters(source, pulls[idx])
  /\ comments' = github.pulls[idx].comments
  /\ reviews' = github.pulls[idx].reviews
  /\ LET st1 == checkComments(source, client,
                              [v |-> NewVersion(pulls[idx]), e |-> FALSE], comments')
         st2 == checkReviews(source, client, st1, reviews')
     IN /\ version' = savedVersion(source, st2.v)
        /\ versions' = saveVersion(source, versions, st2.v)
        /\ hostingErr' = (hostingErr \/ st2.e)
  /\ idx' = idx + 1
  /\ UNCHANGED <<source, github, client, pc, pulls, res, run, prev>>
  /\ listed' = listed \union {<<kind, pulls[idx].Number>> : kind \in {"comments", "reviews"}}
  /\ UNCHANGED <<prevRes, reqVersion, stdout>>
  /\ UNCHANGED <<inVars, fnVars>>

\* After the loop: sort.Slice and return &versions, nil
SortAndReturn ==
  /\ pc = "loop"
  /\ idx > Len(pulls)
  /\ versions' = sortVersions(versions)
  /\ pc' = "done"
  /\ res' = "ok"
  /\ UNCHANGED <<source, github, client, pulls, idx, comments, reviews, version,
                 hostingErr, run, prev>>
  /\ UNCHANGED <<prevRes, reqVersion, listed, stdout>>
  /\ UNCHANGED <<inVars, fnVars>>

\* doCheckCmd after Check has returned the list: doOutput encodes it to
\* standard output
DoOutput ==
  /\ pc = "done"
  /\ res = "ok"
  /\ stdout' = Append(stdout, versions)
  /\ pc' = "exit"
  /\ UNCHANGED <<source, github, client, pulls, idx, comments, reviews, version,
                 versions, res, hostingErr, run, prev>>
  /\ UNCHANGED <<prevRes, reqVersion, listed>>
  /\ UNCHANGED <<inVars, fnVars>>

\* doCheckCmd after Check has returned an error: logger.Fatalf writes to
\* standard error and exits
Fatal ==
  /\ pc = "done"
  /\ res = "error"
  /\ pc' = "exit"
  /\ UNCHANGED <<source, github, client, pulls, idx, comments, reviews, version,
                 versions, res, hostingErr, run, prev>>
  /\ UNCHANGED <<prevRes, reqVersion, listed, stdout>>
  /\ UNCHANGED <<inVars, fnVars>>

Next ==
  \/ NewClientOk
  \/ NewClientErr
  \/ ListPullRequestsOk
  \/ ListPullRequestsErr
  \/ PreWarmOk
  \/ PreWarmErr
  \/ LoopSkip
  \/ LoopCommentsErr
  \/ LoopReviewsErr
  \/ LoopPull
  \/ SortAndReturn
  \/ DoOutput
  \/ Fatal

Spec == Init /\ [][Next]_vars

-----------------------------------------------------------------------------
(* What the claims about Check speak of *)

\* The pull request is in the list Check builds
Emitted(k) ==
  \E i \in 1..Len(versions) : versions[i].PrID = FormatInt(github.pulls[k].Number)

\* A message counts as an approval, as a review
ApprovesComment(m) ==
  requestsApproverRegex(source, m.Body) /\ requestsApproverTeam(source, client, m.Login)

ReviewsComment(m) ==
  requestsReviewerRegex(source, m.Body) /\ requestsReviewerTeam(source, client, m.Login)

ReviewsReview(m) == ReviewsComment(m) /\ requestsReviewState(source, m.State)

\* The approvals and the reviews a pull request has
ApprovalCount(k) ==
  LET p == github.pulls[k]
  IN Cardinality({j \in 1..Len(p.comments) : ApprovesComment(p.comments[j])})
     + Cardinality({j \in 1..Len(p.reviews) : ApprovesComment(p.reviews[j])})

ReviewCount(k) ==
  LET p == github.pulls[k]
  IN Cardinality({j \in 1..Len(p.comments) : ReviewsComment(p.comments[j])})
     + Cardinality({j \in 1..Len(p.reviews) : ReviewsReview(p.reviews[j])})

\* version is the Version of pull request k, its comments and reviews gone
\* through
VersionOf(k) ==
  /\ pc \in {"loop", "done"}
  /\ res # "error"
  /\ idx = k + 1
  /\ passesFilters(source, pulls[k])

\* The timestamps of the Responses of a Version
ResponseTimes(v) ==
  {ParseInt(v.approvedBy[j].CreatedAt).n : j \in 1..Len(v.approvedBy)}
  \union {ParseInt(v.reviewedBy[j].CreatedAt).n : j \in 1..Len(v.reviewedBy)}

\* C1: once Check has returned its list, a pull request of the listing is in
\* it if and only if it passes the filters and has at least max(1,
\* min_approvals) approvals and at least max(1, min_reviews) reviews.
C1_EmittedIffMinimums ==
  res = "ok" =>
    \A k \in 1..Len(github.pulls) :
       Emitted(k) <=> /\ passesFilters(source, github.pulls[k])
                      /\ ApprovalCount(k) >= Max(1, source.MinApprovals)
                      /\ ReviewCount(k) >= Max(1, source.MinReviews)

\* One approval under min_approvals = 2 leaves the pull request out
C1_Witness ==
  /\ res = "ok"
  /\ Len(github.pulls) = 1
  /\ source.MinApprovals = 2
  /\ passesFilters(source, github.pulls[1])
  /\ ApprovalCount(1) = 1
  /\ ReviewCount(1) >= Max(1, source.MinReviews)
  /\ ~Emitted(1)

OnlyComments(list) ==
  \A j \in 1..Len(list) : list[j].ReviewID = <<>> /\ list[j].CommentID # <<>>

\* The comments of a pull request that count as reviews
ReviewingComments(k) ==
  LET p == github.pulls[k]
  IN {j \in 1..Len(p.comments) : ReviewsComment(p.comments[j])}

\* C22: with review_states empty no review is in the reviewedBy list of a
\* Version, the one being built or one of the list, so a pull request is in
\* the list Check returns only with max(1, min_reviews) comments that count
\* as reviews: the empty list accepts no state, not every state.
C22_EmptyReviewStatesRejectsAll ==
  Len(source.ReviewStates) = 0 =>
    /\ OnlyComments(version.reviewedBy)
    /\ \A i \in 1..Len(versions) : OnlyComments(versions[i].reviewedBy)
    /\ res = "ok" =>
          \A k \in 1..Len(github.pulls) :
             Emitted(k) =>
               Cardinality(ReviewingComments(k)) >= Max(1, source.MinReviews)

\* No review_states and no reviewer regex or team: the one review of the pull
\* request, which the approver side accepts, is no review, and the pull
\* request, without a comment, is not in the list
C22_Witness ==
  /\ res = "ok"
  /\ Len(source.ReviewStates) = 0
  /\ Len(source.ReviewerComments) = 0
  /\ Len(source.ReviewerTeams) = 0
  /\ Len(github.pulls) = 1
  /\ Len(github.pulls[1].comments) = 0
  /\ Len(github.pulls[1].reviews) = 1
  /\ ReviewsComment(github.pulls[1].reviews[1])
  /\ ApprovalCount(1) >= Max(1, source.MinApprovals)
  /\ ~Emitted(1)

\* C5: when a Hosting Client call of the run has failed, Check returns an
\* error (and so no list).
C5_HostingErrorAborts ==
  (pc = "done" /\ hostingErr) => res = "error"

\* C8: the list Check returns is in ascending order of lastUpdated, and the
\* lastUpdated of each Version is the greatest timestamp of its Responses.
C8_SortedByLastUpdated ==
  res = "ok" =>
    /\ \A i, j \in 1..Len(versions) :
          i < j => versions[i].lastUpdated <= versions[j].lastUpdated
    /\ \A i \in 1..Len(versions) :
          /\ versions[i].lastUpdated \in ResponseTimes(versions[i])
          /\ \A t \in ResponseTimes(versions[i]) : t <= versions[i].lastUpdated

\* Two Versions returned in the other order than their pull requests were listed
C8_Witness ==
  /\ res = "ok"
  /\ Len(versions) = 2
  /\ versions[1].PrID = FormatInt(PullNumber(2))
  /\ versions[1].lastUpdated < versions[2].lastUpdated

\* C17 (Check): once a call of the Hosting Client has returned an error the
\* invocation is over: Check has returned the error, no later step runs and
\* nothing is written to standard output.
C17_FirstErrorEnds ==
  hostingErr => (pc \in {"done", "exit"} /\ res = "error" /\ stdout = <<>>)

\* The listings requested for the k-th pull request
ListedFor(k) == {kind \in {"comments", "reviews"} : <<kind, pulls[k].Number>> \in listed}

\* The pull request is one Check is to discard
Discarded(pull) ==
  \/ ~requestsState(source, pull.State)
  \/ ~requestsLabels(source, pull.Labels)
  \/ (source.OnlyMergeable /\ ~pull.Mergeable)
  \/ pull.Draft

\* C18: a pull request that does not pass the filters (state, labels,
\* mergeable under only_mergeable, draft) has neither its comments nor its
\* reviews listed, and is not in the list Check builds nor in its output.
C18_FilteredNeverListed ==
  \A k \in 1..Len(pulls) :
     Discarded(pulls[k]) =>
        /\ ListedFor(k) = {}
        /\ ~Emitted(k)
        /\ \A o \in 1..Len(stdout) : \A i \in 1..Len(stdout[o]) :
               stdout[o][i].PrID # FormatInt(pulls[k].Number)

\* Check has written its list: a draft with a comment is not in it, while
\* another pull request with the same comment is
C18_Witness ==
  /\ pc = "exit"
  /\ res = "ok"
  /\ Len(pulls) = 2
  /\ pulls[1].Draft
  /\ Len(github.pulls[1].comments) = 1
  /\ Len(github.pulls[2].comments) = 1
  /\ github.pulls[1].comments[1].Body = github.pulls[2].comments[1].Body
  /\ ListedFor(1) = {}
  /\ ListedFor(2) = {"comments", "reviews"}
  /\ Len(stdout) = 1
  /\ Len(stdout[1]) = 1
  /\ stdout[1][1].PrID = FormatInt(pulls[2].Number)

-----------------------------------------------------------------------------
(* Check run twice against the same source and the same hosting platform *)

TwiceSources ==
  { [DefaultSource EXCEPT !.ApproverComments = rx[1], !.ReviewerComments = rx[2],
                          !.ApproverTeams = at, !.ReviewerTeams = rt] :
      rx \in {<<<<>>, <<>>>>, <<<<ApproverPattern>>, <<ReviewerPattern>>>>},
      at \in {<<>>, <<"maintainers">>},
      rt \in {<<>>, <<"reviewers", "maintainers">>} }

TwiceGithubs ==
  { MakeGithub(ps) :
      ps \in SeqsUpTo([profile : {PassingProfile,
                                  [PassingProfile EXCEPT !.Draft = TRUE]},
                       comments : SeqsUpTo([Body : {<<"lgtm", "approve", "review">>},
                                            Login : Users, At : 1..MaxTime], 1),
                       reviews : {<<>>}], MaxPulls) }

InitTwice ==
  \E src \in TwiceSources, gh \in TwiceGithubs, down \in SUBSET Teams :
     InitCheck(src, gh, down)

\* The second invocation of the command: a new process, a new client, the
\* same source and the same pull requests, comments, reviews and teams
Rerun ==
  /\ pc = "done"
  /\ res = "ok"
  /\ run = 1
  /\ run' = 2
  /\ prev' = versions
  /\ \E down \in SUBSET Teams : client' = [down |-> down, warm |-> {}]
  /\ pc' = "newClient"
  /\ pulls' = <<>>
  /\ idx' = 1
  /\ comments' = <<>>
  /\ reviews' = <<>>
  /\ version' = NilVersion
  /\ versions' = <<>>
  /\ res' = "none"
  /\ hostingErr' = FALSE
  /\ prevRes' = res
  /\ listed' = {}
  /\ stdout' = <<>>
  /\ UNCHANGED <<source, github, reqVersion>>
  /\ UNCHANGED <<inVars, fnVars>>

NextTwice == Next \/ Rerun

SpecTwice == InitTwice /\ [][NextTwice]_vars

\* What Concourse reads of a list of Versions
Payloads(list) ==
  [i \in 1..Len(list) |->
     [pr_id |-> list[i].PrID, approved_by |-> list[i].ApprovedBy,
      reviewed_by |-> list[i].ReviewedBy]]

\* C9: the second run of Check returns the Versions of the first, in the same
\* order, with the same approved_by and reviewed_by.
C9_SameListTwice ==
  (run = 2 /\ res = "ok") => Payloads(versions) = Payloads(prev)

-----------------------------------------------------------------------------
(* Check run twice with different versions in the request *)

\* The versions a request may hold: none, or one of a pull request
VersionsSupplied ==
  {NoVersion} \union
  { [PrID |-> FormatInt(PullNumber(k)), ApprovedBy |-> Marshal(<<>>),
     ReviewedBy |-> Marshal(<<>>)] : k \in 1..MaxPulls }

InitVersion ==
  \E src \in TwiceSources, gh \in TwiceGithubs, down \in SUBSET Teams,
     v \in VersionsSupplied :
     InitCheckWith(src, gh, down, v)

\* The next check of the resource: the same source, the same hosting platform
\* with the same unreachable endpoints, and another version in the request,
\* one of the versions supplied or one the first run has returned
RerunWithVersion ==
  /\ pc = "exit"
  /\ res = "ok"
  /\ run = 1
  /\ run' = 2
  /\ prev' = versions
  /\ prevRes' = res
  /\ \E v \in (VersionsSupplied \union
                {[PrID |-> versions[i].PrID,
                  ApprovedBy |-> versions[i].ApprovedBy,
                  ReviewedBy |-> versions[i].ReviewedBy] :
                    i \in 1..Len(versions)}) \ {reqVersion} :
        reqVersion' = v
  /\ client' = [down |-> client.down, warm |-> {}]
  /\ pc' = "newClient"
  /\ pulls' = <<>>
  /\ idx' = 1
  /\ comments' = <<>>
  /\ reviews' = <<>>
  /\ version' = NilVersion
  /\ versions' = <<>>
  /\ res' = "none"
  /\ hostingErr' = FALSE
  /\ listed' = {}
  /\ stdout' = <<>>
  /\ UNCHANGED <<source, github>>
  /\ UNCHANGED <<inVars, fnVars>>

NextVersion == Next \/ RerunWithVersion

SpecVersion == InitVersion /\ [][NextVersion]_vars

\* C19: Check run with another version in its request returns the list it
\* returned before, the Version the request holds and older ones included.
C19_VersionIgnored ==
  (run = 2 /\ res = "ok") => Payloads(versions) = Payloads(prev)

\* The second run was given a Version of the first run's list and has
\* returned that Version again
C19_Witness ==
  /\ run = 2
  /\ pc = "exit"
  /\ res = "ok"
  /\ \E i \in 1..Len(prev) : prev[i].PrID = reqVersion.PrID
  /\ \E i \in 1..Len(stdout[1]) :
        /\ stdout[1][i].PrID = reqVersion.PrID
        /\ stdout[1][i].ApprovedBy = reqVersion.ApprovedBy
        /\ stdout[1][i].ReviewedBy = reqVersion.ReviewedBy

-----------------------------------------------------------------------------
(* Check as it is, then Check without the loop of ListTeamMembers, against *)
(* the same source and hosting platform; of the Hosting Client only the    *)
(* calls about teams may fail                                              *)

\* Check without the pre-warm: from the listing straight to the loop
NoPreWarm ==
  /\ pc = "preWarm"
  /\ run = 2
  /\ pc' = "loop"
  /\ UNCHANGED <<source, github, client, pulls, idx, comments, reviews, version,
                 versions, res, hostingErr, run, prev>>
  /\ UNCHANGED <<prevRes, reqVersion, listed, stdout>>
  /\ UNCHANGED <<inVars, fnVars>>

\* The second invocation, with the same unreachable team endpoints
RerunNoPreWarm ==
  /\ pc = "exit"
  /\ run = 1
  /\ run' = 2
  /\ prev' = versions
  /\ prevRes' = res
  /\ client' = [down |-> client.down, warm |-> {}]
  /\ pc' = "newClient"
  /\ pulls' = <<>>
  /\ idx' = 1
  /\ comments' = <<>>
  /\ reviews' = <<>>
  /\ version' = NilVersion
  /\ versions' = <<>>
  /\ res' = "none"
  /\ hostingErr' = FALSE
  /\ listed' = {}
  /\ stdout' = <<>>
  /\ UNCHANGED <<source, github, reqVersion>>
  /\ UNCHANGED <<inVars, fnVars>>

NextPreWarm ==
  \/ NewClientOk
  \/ ListPullRequestsOk
  \/ (run = 1 /\ PreWarmOk)
  \/ (run = 1 /\ PreWarmErr)
  \/ NoPreWarm
  \/ LoopSkip
  \/ LoopPull
  \/ SortAndReturn
  \/ DoOutput
  \/ Fatal
  \/ RerunNoPreWarm

SpecPreWarm == InitTwice /\ [][NextPreWarm]_vars

-----------------------------------------------------------------------------
(* The functions that are evaluated on their own: requestsState and        *)
(* requestsLabels on every configuration of the lists, and the encoding of *)
(* a list of Responses by Check followed by its decoding by In             *)

StateNames == {"open", "closed"}
LabelNames == {"bug", "stale"}

IdleCheckOn(gh) ==
  /\ github = gh
  /\ client = [down |-> {}, warm |-> {}]
  /\ pc = "idle"
  /\ pulls = <<>>
  /\ idx = 1
  /\ comments = <<>>
  /\ reviews = <<>>
  /\ version = NilVersion
  /\ versions = <<>>
  /\ res = "none"
  /\ hostingErr = FALSE
  /\ run = 1
  /\ prev = <<>>
  /\ prevRes = "none"
  /\ reqVersion = NoVersion
  /\ listed = {}
  /\ stdout = <<>>

IdleCheck == IdleCheckOn([pulls |-> <<>>])

InitStates ==
  /\ \E inc \in SeqsUpTo(StateNames, MaxList), exc \in SeqsUpTo(StateNames, MaxList) :
        source = [DefaultSource EXCEPT !.States = inc, !.IgnoreStates = exc]
  /\ \E st \in StateNames : fnIn = [kind |-> "requestsState", state |-> st]
  /\ fnOut = [fn |-> "none"]
  /\ IdleCheck
  /\ IdleIn

InitLabels ==
  /\ \E inc \in SeqsUpTo(LabelNames, MaxList), exc \in SeqsUpTo(LabelNames, MaxList) :
        source = [DefaultSource EXCEPT !.Labels = inc, !.IgnoreLabels = exc]
  /\ \E ls \in SeqsUpTo(LabelNames, MaxList) :
        fnIn = [kind |-> "requestsLabels", labels |-> ls]
  /\ fnOut = [fn |-> "none"]
  /\ IdleCheck
  /\ IdleIn

\* The Responses a list may hold: of a review, of a comment, with both ids
\* and with none
CodecResponses ==
  [ReviewID : {<<>>, FormatInt(7), FormatInt(ReviewIDOf(2, 1))},
   CommentID : {<<>>, FormatInt(CommentIDOf(1, 1))},
   CreatedAt : {FormatInt(t) : t \in 1..MaxTime}]

InitCodec ==
  /\ source = DefaultSource
  /\ \E list \in SeqsUpTo(CodecResponses, MaxResponses) :
        fnIn = [kind |-> "codec", list |-> list]
  /\ fnOut = [fn |-> "none"]
  /\ IdleCheck
  /\ IdleIn

InitFn == InitStates \/ InitLabels \/ InitCodec

\* req.Source.requestsState(*pull.State)
EvalRequestsState ==
  /\ fnIn.kind = "requestsState"
  /\ fnOut.fn = "none"
  /\ fnOut' = [fn |-> "requestsState", val |-> requestsState(source, fnIn.state)]
  /\ UNCHANGED <<checkVars, inVars, fnIn>>

\* req.Source.requestsLabels(pull.Labels)
EvalRequestsLabels ==
  /\ fnIn.kind = "requestsLabels"
  /\ fnOut.fn = "none"
  /\ fnOut' = [fn |-> "requestsLabels", val |-> requestsLabels(source, fnIn.labels)]
  /\ UNCHANGED <<checkVars, inVars, fnIn>>

\* Check: out, err = json.Marshal(version.approvedBy); string(out)
EncodeResponses ==
  /\ fnIn.kind = "codec"
  /\ fnOut.fn = "none"
  /\ fnOut' = [fn |-> "Marshal", text |-> Marshal(fnIn.list)]
  /\ UNCHANGED <<checkVars, inVars, fnIn>>

\* In: json.Unmarshal([]byte(req.Version.ApprovedBy), &req.Version.approvedBy)
DecodeResponses ==
  /\ fnIn.kind = "codec"
  /\ fnOut.fn = "Marshal"
  /\ fnOut' = [fn |-> "Unmarshal", text |-> fnOut.text, dec |-> Unmarshal(fnOut.text)]
  /\ UNCHANGED <<checkVars, inVars, fnIn>>

NextFn ==
  \/ EvalRequestsState
  \/ EvalRequestsLabels
  \/ EncodeResponses
  \/ DecodeResponses

SpecFn == InitFn /\ [][NextFn]_vars

\* A label of the pull request is in ignore_labels
HasIgnoredLabel ==
  \E j \in 1..Len(fnIn.labels) : Contains(source.IgnoreLabels, fnIn.labels[j])

\* C6: requestsState returns false for a state in ignore_states and
\* requestsLabels returns false for labels of which one is in ignore_labels,
\* whatever states and labels hold.
C6_ExclusionWins ==
  /\ (fnOut.fn = "requestsState" /\ Contains(source.IgnoreStates, fnIn.state))
        => ~fnOut.val
  /\ (fnOut.fn = "requestsLabels" /\ HasIgnoredLabel) => ~fnOut.val

\* A state in both states and ignore_states, rejected
C6_Witness ==
  /\ fnOut.fn = "requestsState"
  /\ Contains(source.States, fnIn.state)
  /\ Contains(source.IgnoreStates, fnIn.state)
  /\ ~fnOut.val

\* C7 as stated: with an empty inclusion list requestsState accepts every
\* state not in ignore_states and requestsLabels every label set without a
\* label of ignore_labels.
C7_EmptyInclusionAcceptsAll ==
  /\ (fnOut.fn = "requestsState" /\ Len(source.States) = 0
        /\ ~Contains(source.IgnoreStates, fnIn.state)) => fnOut.val
  /\ (fnOut.fn = "requestsLabels" /\ Len(source.Labels) = 0 /\ ~HasIgnoredLabel)
        => fnOut.val

\* C7 as amended: with an empty states list requestsState accepts exactly the
\* state "open" when ignore_states does not hold it; with an empty labels list
\* requestsLabels accepts exactly the label sets without a label of
\* ignore_labels.
C7_EmptyInclusionDefaults ==
  /\ (fnOut.fn = "requestsState" /\ Len(source.States) = 0)
        => (fnOut.val <=> (fnIn.state = "open"
                           /\ ~Contains(source.IgnoreStates, fnIn.state)))
  /\ (fnOut.fn = "requestsLabels" /\ Len(source.Labels) = 0)
        => (fnOut.val <=> ~HasIgnoredLabel)

\* No states configured, none ignored: "closed" is not requested
C7_Witness ==
  /\ fnOut.fn = "requestsState"
  /\ Len(source.States) = 0
  /\ Len(source.IgnoreStates) = 0
  /\ fnIn.state = "closed"
  /\ ~fnOut.val

\* C10: decoding the encoding of a list of Responses succeeds and gives a list
\* of the same length with the same review_id, comment_id and created_at at
\* every position.
C10_DecodeOfEncode ==
  fnOut.fn = "Unmarshal" =>
    /\ ~fnOut.dec.err
    /\ Len(fnOut.dec.list) = Len(fnIn.list)
    /\ \A i \in 1..Len(fnIn.list) :
          /\ fnOut.dec.list[i].ReviewID = fnIn.list[i].ReviewID
          /\ fnOut.dec.list[i].CommentID = fnIn.list[i].CommentID
          /\ fnOut.dec.list[i].CreatedAt = fnIn.list[i].CreatedAt

\* The Response of a comment, then that of a review, decoded
C10_Witness ==
  /\ fnOut.fn = "Unmarshal"
  /\ Len(fnIn.list) = 2
  /\ fnIn.list[1].ReviewID = <<>> /\ fnIn.list[1].CommentID # <<>>
  /\ fnIn.list[2].ReviewID # <<>> /\ fnIn.list[2].CommentID = <<>>
  /\ Len(fnOut.dec.list) = 2

-----------------------------------------------------------------------------
(* A Metadata built by Add and read by Get *)

\* The names and values of the fields added
FieldNames == {<<"who">>, <<"why">>}
FieldValues == {<<"alice">>, <<"bob">>}

\* var res Metadata: the empty list
InitMetadata ==
  /\ source = DefaultSource
  /\ fnIn = [kind |-> "metadata", m |-> <<>>, was |-> <<>>, adds |-> 0,
             name |-> <<>>, value |-> <<>>]
  /\ fnOut = [fn |-> "none"]
  /\ IdleCheck
  /\ IdleIn

\* m.Add(name, value); "was" keeps the list of before the call
MetadataAdd ==
  /\ fnIn.kind = "metadata"
  /\ Len(fnIn.m) < MaxFields
  /\ \E name \in FieldNames, value \in FieldValues :
        fnIn' = [kind |-> "metadata", m |-> Add(fnIn.m, name, value), was |-> fnIn.m,
                 adds |-> fnIn.adds + 1, name |-> name, value |-> value]
  /\ fnOut' = [fn |-> "none"]
  /\ UNCHANGED <<checkVars, inVars>>

\* m.Get(name)
MetadataGet ==
  /\ fnIn.kind = "metadata"
  /\ \E name \in FieldNames :
        fnOut' = [fn |-> "Get", name |-> name, got |-> Get(fnIn.m, name)]
  /\ UNCHANGED <<checkVars, inVars, fnIn>>

NextMetadata ==
  \/ MetadataAdd
  \/ MetadataGet

SpecMetadata == InitMetadata /\ [][NextMetadata]_vars

\* The positions of the fields of that name
PositionsOf(m, name) == {i \in 1..Len(m) : m[i].Name = name}

\* The least position of a non-empty set of positions
FirstOf(positions) == CHOOSE i \in positions : \A j \in positions : i <= j

\* C21: Add puts the pair (name, value) at the end of the list and leaves the
\* pairs before it as they were, also when the name is already there; Get
\* returns the value of the first pair of that name in insertion order, and an
\* error when no pair has that name.
C21_AddAppendsGetFirst ==
  /\ (fnIn.kind = "metadata" /\ fnIn.adds > 0) =>
        /\ Len(fnIn.m) = Len(fnIn.was) + 1
        /\ \A i \in 1..Len(fnIn.was) : fnIn.m[i] = fnIn.was[i]
        /\ fnIn.m[Len(fnIn.m)].Name = fnIn.name
        /\ fnIn.m[Len(fnIn.m)].Value = fnIn.value
  /\ fnOut.fn = "Get" =>
        IF PositionsOf(fnIn.m, fnOut.name) = {}
        THEN fnOut.got.err
        ELSE /\ ~fnOut.got.err
             /\ fnOut.got.val = fnIn.m[FirstOf(PositionsOf(fnIn.m, fnOut.name))].Value

\* The last Add has added a name the list held already, with another value,
\* and Get of that name has returned the value of the first
C21_Witness ==
  /\ fnIn.kind = "metadata"
  /\ fnOut.fn = "Get"
  /\ fnOut.name = fnIn.name
  /\ PositionsOf(fnIn.was, fnIn.name) # {}
  /\ fnIn.was[FirstOf(PositionsOf(fnIn.was, fnIn.name))].Value # fnIn.value
  /\ ~fnOut.got.err
  /\ fnOut.got.val # fnIn.value

-----------------------------------------------------------------------------
(* In, step by step *)

IntegrationTools == {"", "rebase", "merge", "checkout", "squash"}

\* The Responses of the Versions handed to In: of a review, of a comment,
\* with no id and with both
InResponses ==
  { [ReviewID |-> FormatInt(ReviewIDOf(1, 1)), CommentID |-> <<>>, CreatedAt |-> FormatInt(1)],
    [ReviewID |-> <<>>, CommentID |-> FormatInt(CommentIDOf(1, 1)), CreatedAt |-> FormatInt(1)],
    [ReviewID |-> <<>>, CommentID |-> <<>>, CreatedAt |-> FormatInt(1)],
    [ReviewID |-> FormatInt(ReviewIDOf(1, 1)), CommentID |-> FormatInt(CommentIDOf(1, 1)),
     CreatedAt |-> FormatInt(1)] }

\* approved_by as Check encodes it, and the empty string, which is no JSON
InApprovedByTexts ==
  {Marshal(list) : list \in SeqsUpTo(InResponses, MaxResponses)} \union {<<>>}

InReviewedByTexts ==
  {Marshal(list) : list \in SeqsUpTo(InResponses, 1)} \union {<<>>}

\* The Responses Check writes: of a review, of a comment
CheckResponses ==
  { [ReviewID |-> FormatInt(ReviewIDOf(1, 1)), CommentID |-> <<>>, CreatedAt |-> FormatInt(1)],
    [ReviewID |-> <<>>, CommentID |-> FormatInt(CommentIDOf(1, 1)), CreatedAt |-> FormatInt(1)] }

\* The patterns with groups: "by (?P<who>\w+)", "by (\w+)", "for (?P<who>\w+)",
\* "by (?P<who>\w+) (?P<why>\w+)" and "on (?P<who>\w+)", which no body matches
ByWho == [lit |-> "by", groups |-> <<"who">>]
ByAny == [lit |-> "by", groups |-> <<"">>]
ForWho == [lit |-> "for", groups |-> <<"who">>]
ByWhoWhy == [lit |-> "by", groups |-> <<"who", "why">>]
OnWho == [lit |-> "on", groups |-> <<"who">>]

CapturePatternLists ==
  {<<>>, <<ByWho>>, <<ByAny>>, <<ByWho, ForWho>>, <<ForWho, ByWho>>,
   <<ByWho, OnWho>>, <<ByWhoWhy>>}

\* The pull request In is about, with one comment and one review
InGithub ==
  MakeGithub(<<[profile |-> PassingProfile,
                comments |-> <<[Body |-> <<"by", "alice", "for", "bob">>,
                                Login |-> "alice", At |-> 1]>>,
                reviews |-> <<[Body |-> <<"by", "carol">>, Login |-> "bob",
                               At |-> 1, State |-> "APPROVED"]>>]>>)

\* gh.GetPullRequest(number): the pull requests of that number
GetPullRequest(gh, number) ==
  {k \in 1..Len(gh.pulls) : gh.pulls[k].Number = number}

\* gh.GetPullRequestReview(prID, reviewID): the reviews of that id
GetPullRequestReview(gh, prID, reviewID) ==
  UNION { {gh.pulls[k].reviews[j] : j \in {j \in 1..Len(gh.pulls[k].reviews) :
                                              gh.pulls[k].reviews[j].ID = reviewID}} :
          k \in GetPullRequest(gh, prID) }

\* gh.GetPullRequestComment(commentID): the comments of that id
GetPullRequestComment(gh, commentID) ==
  UNION { {gh.pulls[k].comments[j] : j \in {j \in 1..Len(gh.pulls[k].comments) :
                                               gh.pulls[k].comments[j].ID = commentID}} :
          k \in 1..Len(gh.pulls) }

InitInWith(src, a, r, tool, skip, map) ==
  /\ source = src
  /\ IdleCheckOn(InGithub)
  /\ IdleFn
  /\ inReq = [Version |-> [PrID |-> FormatInt(PullNumber(1)),
                           ApprovedBy |-> a, ReviewedBy |-> r],
              Params |-> [IntegrationTool |-> tool, SkipDownload |-> skip,
                          MapMetadata |-> map]]
  /\ inPc = "newClient"
  /\ inApprovedBy = <<>>
  /\ inReviewedBy = <<>>
  /\ inIdx = 1
  /\ inTotals = [TotalApprovals |-> 0, TotalReviews |-> 0]
  /\ gitCalls = <<>>
  /\ inRes = "none"
  /\ inErr = ""
  /\ inMsgs = [approvedBy |-> <<>>, reviewedBy |-> <<>>]
  /\ inMetadata = <<>>
  /\ files = [p \in {} |-> <<>>]
  /\ inStdout = <<>>

\* Every Version, decodable or not, under every params, no pattern configured
InitInTools ==
  \E a \in InApprovedByTexts, r \in InReviewedByTexts,
     tool \in IntegrationTools, skip \in BOOLEAN, map \in BOOLEAN :
     InitInWith(DefaultSource, a, r, tool, skip, map)

\* The Versions Check writes, under every list of patterns, without download
InitInCaptures ==
  \E ap \in CapturePatternLists, rp \in {<<>>, <<ByWho>>, <<ByAny>>},
     al \in SeqsUpTo(CheckResponses, MaxResponses), rl \in SeqsUpTo(CheckResponses, 1),
     map \in BOOLEAN :
     InitInWith([DefaultSource EXCEPT !.ApproverComments = ap, !.ReviewerComments = rp],
                Marshal(al), Marshal(rl), "", TRUE, map)

InitIn == InitInTools \/ InitInCaptures

\* What a step of In leaves alone besides its position and its result
inData == <<inReq, inApprovedBy, inReviewedBy, inIdx, inTotals, gitCalls,
            inMsgs, inMetadata, files, inStdout>>

\* return nil, err
InFail(kind) ==
  /\ inPc' = "done"
  /\ inRes' = "error"
  /\ inErr' = kind

\* A step that succeeds and leaves everything but the position as it is
InStep(to) ==
  /\ inPc' = to
  /\ UNCHANGED <<inData, inRes, inErr>>
  /\ UNCHANGED <<checkVars, fnVars>>

\* A step that fails: In returns the error
InStepErr(kind) ==
  /\ InFail(kind)
  /\ UNCHANGED inData
  /\ UNCHANGED <<checkVars, fnVars>>

\* api.NewGithubClient
InNewClientOk ==
  /\ inPc = "newClient"
  /\ InStep("getPull")
InNewClientErr ==
  /\ inPc = "newClient"
  /\ InStepErr("client")

\* prID, _ := strconv.ParseInt(req.Version.PrID, 10, 64)
PrIDOf(req) == ParseInt(req.Version.PrID).n

\* gh.GetPullRequest(int(prID))
InGetPullRequestOk ==
  /\ inPc = "getPull"
  /\ GetPullRequest(github, PrIDOf(inReq)) # {}
  /\ InStep("mkdir")
InGetPullRequestErr ==
  /\ inPc = "getPull"
  /\ InStepErr("hosting")

\* os.MkdirAll(path, os.ModePerm)
InMkdirOk ==
  /\ inPc = "mkdir"
  /\ InStep("decodeApprovals")
InMkdirErr ==
  /\ inPc = "mkdir"
  /\ InStepErr("io")

\* json.Unmarshal of req.Version.ApprovedBy
InDecodeApprovalsOk ==
  /\ inPc = "decodeApprovals"
  /\ ~Unmarshal(inReq.Version.ApprovedBy).err
  /\ inApprovedBy' = Unmarshal(inReq.Version.ApprovedBy).list
  /\ inIdx' = 1
  /\ inPc' = "approvals"
  /\ UNCHANGED <<inReq, inReviewedBy, inTotals, gitCalls, inRes, inErr,
                 inMsgs, inMetadata, files, inStdout>>
  /\ UNCHANGED <<checkVars, fnVars>>

InDecodeApprovalsErr ==
  /\ Unmarshal(inReq.Version.ApprovedBy).err
  /\ inPc = "decodeApprovals"
  /\ InStepErr("decode")

\* The ids of a Response: the errors of ParseInt are dropped
ReviewIDOfResponse(r) == ParseInt(r.ReviewID).n
CommentIDOfResponse(r) == ParseInt(r.CommentID).n

\* What is fetched for a Response: "review" if reviewID > 0, else "comment"
\* if commentID > 0, else nothing
fetchedAs(r) ==
  IF ReviewIDOfResponse(r) > 0 THEN "review"
  ELSE IF CommentIDOfResponse(r) > 0 THEN "comment"
  ELSE "invalid"

\* The Messages parseReview or parseComment may return for a Response (none
\* if the hosting platform holds no such review or comment)
messagesOf(gh, prID, r, regex) ==
  CASE fetchedAs(r) = "review" ->
         {parseReview(rv, regex) :
            rv \in GetPullRequestReview(gh, prID, ReviewIDOfResponse(r))}
    [] fetchedAs(r) = "comment" ->
         {parseComment(c, regex) :
            c \in GetPullRequestComment(gh, CommentIDOfResponse(r))}
    [] OTHER -> {}

\* The loop over the approvals: parseReview or parseComment fetches the
\* message, and the message is appended and counted
InApprovalOk ==
  /\ inPc = "approvals"
  /\ inIdx <= Len(inApprovedBy)
  /\ \E message \in messagesOf(github, PrIDOf(inReq), inApprovedBy[inIdx],
                               source.ApproverComments) :
        inMsgs' = [inMsgs EXCEPT !.approvedBy = Append(@, message)]
  /\ inTotals' = [inTotals EXCEPT !.TotalApprovals = @ + 1]
  /\ inIdx' = inIdx + 1
  /\ UNCHANGED <<inReq, inPc, inApprovedBy, inReviewedBy, gitCalls, inRes, inErr,
                 inMetadata, files, inStdout>>
  /\ UNCHANGED <<checkVars, fnVars>>

\* gh.GetPullRequestReview or gh.GetPullRequestComment fails
InApprovalFetchErr ==
  /\ inPc = "approvals"
  /\ inIdx <= Len(inApprovedBy)
  /\ fetchedAs(inApprovedBy[inIdx]) # "invalid"
  /\ InStepErr("hosting")

\* "invalid approval: no comment or review id"
InApprovalInvalid ==
  /\ inPc = "approvals"
  /\ inIdx <= Len(inApprovedBy)
  /\ fetchedAs(inApprovedBy[inIdx]) = "invalid"
  /\ InStepErr("invalid")

InApprovalsDone ==
  /\ inPc = "approvals"
  /\ inIdx > Len(inApprovedBy)
  /\ InStep("decodeReviews")

\* json.Unmarshal of req.Version.ReviewedBy
InDecodeReviewsOk ==
  /\ inPc = "decodeReviews"
  /\ ~Unmarshal(inReq.Version.ReviewedBy).err
  /\ inReviewedBy' = Unmarshal(inReq.Version.ReviewedBy).list
  /\ inIdx' = 1
  /\ inPc' = "reviews"
  /\ UNCHANGED <<inReq, inApprovedBy, inTotals, gitCalls, inRes, inErr,
                 inMsgs, inMetadata, files, inStdout>>
  /\ UNCHANGED <<checkVars, fnVars>>

InDecodeReviewsErr ==
  /\ Unmarshal(inReq.Version.ReviewedBy).err
  /\ inPc = "decodeReviews"
  /\ InStepErr("decode")

\* The loop over the reviews
InReviewOk ==
  /\ inPc = "reviews"
  /\ inIdx <= Len(inReviewedBy)
  /\ \E message \in messagesOf(github, PrIDOf(inReq), inReviewedBy[inIdx],
                               source.ReviewerComments) :
        inMsgs' = [inMsgs EXCEPT !.reviewedBy = Append(@, message)]
  /\ inTotals' = [inTotals EXCEPT !.TotalReviews = @ + 1]
  /\ inIdx' = inIdx + 1
  /\ UNCHANGED <<inReq, inPc, inApprovedBy, inReviewedBy, gitCalls, inRes, inErr,
                 inMetadata, files, inStdout>>
  /\ UNCHANGED <<checkVars, fnVars>>

InReviewFetchErr_VersionWrittenFirst ==
  /\ inPc = "reviews"
  /\ inIdx <= Len(inReviewedBy)
  /\ fetchedAs(inReviewedBy[inIdx]) # "invalid"
  /\ files' = WriteFile(files, <<<<"version.json">>>>, <<>>)
  /\ InFail("hosting")
  /\ UNCHANGED <<inReq, inApprovedBy, inReviewedBy, inIdx, inTotals, gitCalls,
                 inMsgs, inMetadata, inStdout>>
  /\ UNCHANGED <<checkVars, fnVars>>

InReviewFetchErr ==
  /\ inPc = "reviews"
  /\ inIdx <= Len(inReviewedBy)
  /\ fetchedAs(inReviewedBy[inIdx]) # "invalid"
  /\ InStepErr("hosting")

\* "invalid review: no comment or review id"
InReviewInvalid ==
  /\ inPc = "reviews"
  /\ inIdx <= Len(inReviewedBy)
  /\ fetchedAs(inReviewedBy[inIdx]) = "invalid"
  /\ InStepErr("invalid")

InReviewsDone ==
  /\ inPc = "reviews"
  /\ inIdx > Len(inReviewedBy)
  /\ InStep("metadata")

\* The InMetadata of the pull request: the refs and SHAs GetPullRequest returned
\* and the two counters
InMetadataOf(number, totals) ==
  [PRID |-> number, PRHeadRef |-> <<"feature">>, PRHeadSHA |-> <<"head-sha">>,
   PRBaseRef |-> <<"main">>, PRBaseSHA |-> <<"base-sha">>,
   TotalApprovals |-> totals.TotalApprovals, TotalReviews |-> totals.TotalReviews]

\* serializeStruct(metadata), then the fields of the matches of the approvals
\* and of the reviews
InBuildMetadata ==
  /\ inPc = "metadata"
  /\ inMetadata' \in
       addMatches(addMatches({serializeStruct(InMetadataOf(PrIDOf(inReq), inTotals))},
                             inMsgs.approvedBy, 1),
                  inMsgs.reviewedBy, 1)
  /\ inPc' = "writeVersion"
  /\ UNCHANGED <<inReq, inApprovedBy, inReviewedBy, inIdx, inTotals, gitCalls,
                 inRes, inErr, inMsgs, files, inStdout>>
  /\ UNCHANGED <<checkVars, fnVars>>

\* json.Marshal(req.Version): the exported fields under their json names
MarshalVersion(v) ==
  <<[pr_id |-> v.PrID, approved_by |-> v.ApprovedBy, reviewed_by |-> v.ReviewedBy]>>

\* A step that writes files and goes on
InWrite(fs, to) ==
  /\ files' = fs
  /\ inPc' = to
  /\ UNCHANGED <<inReq, inApprovedBy, inReviewedBy, inIdx, inTotals, gitCalls,
                 inRes, inErr, inMsgs, inMetadata, inStdout>>
  /\ UNCHANGED <<checkVars, fnVars>>

\* A step that fails after it has written some files
InWriteErrAfter(fs) ==
  /\ files' = fs
  /\ InFail("io")
  /\ UNCHANGED <<inReq, inApprovedBy, inReviewedBy, inIdx, inTotals, gitCalls,
                 inMsgs, inMetadata, inStdout>>
  /\ UNCHANGED <<checkVars, fnVars>>

\* ioutil.WriteFile of version.json
InWriteVersionOk ==
  /\ inPc = "writeVersion"
  /\ InWrite(WriteFile(files, <<<<"version.json">>>>, MarshalVersion(inReq.Version)),
             "writeMetadata")
InWriteVersionErr ==
  /\ inPc = "writeVersion"
  /\ InStepErr("io")

\* ioutil.WriteFile of metadata.json
InWriteMetadataOk ==
  /\ inPc = "writeMetadata"
  /\ InWrite(WriteFile(files, <<<<"metadata.json">>>>, inMetadata), "writeFields")
InWriteMetadataErr ==
  /\ inPc = "writeMetadata"
  /\ InStepErr("io")

\* "Save the individual metadata items to seperate files"
InWriteFieldsOk ==
  /\ inPc = "writeFields"
  /\ InWrite(writeFields(files, inMetadata, 1), "writeMaps")

\* The write of the n-th field fails, the files before it written
InWriteFieldsErr ==
  /\ inPc = "writeFields"
  /\ \E n \in 1..Len(inMetadata) :
        InWriteErrAfter(writeFields(files, SubSeq(inMetadata, 1, n - 1), 1))

\* if req.Params.MapMetadata
writesMap_Always(params) == TRUE

writesMap(params) == params.MapMetadata

\* What follows the artifacts: the download unless skip_download is set
afterArtifacts(params) == IF params.SkipDownload THEN "return" ELSE "gitClient"

InNoMaps ==
  /\ inPc = "writeMaps"
  /\ ~writesMap(inReq.Params)
  /\ InStep(afterArtifacts(inReq.Params))

\* writeMap of the approvals under approval, then of the reviews under review
InWriteMapsOk ==
  /\ inPc = "writeMaps"
  /\ writesMap(inReq.Params)
  /\ \A i \in 1..Len(inMsgs.approvedBy) : ~cannotWrite(inMsgs.approvedBy[i])
  /\ \A i \in 1..Len(inMsgs.reviewedBy) : ~cannotWrite(inMsgs.reviewedBy[i])
  /\ InWrite(writeMap(writeMap(files, inMsgs.approvedBy, "approval", 1),
                      inMsgs.reviewedBy, "review", 1),
             afterArtifacts(inReq.Params))

\* What writeMap may have written of the message at position n when it fails
\* on it: nothing, its directory, or its fields and some of its matches
partlyWritten(fs, messages, parent, n) ==
  LET dir == <<<<parent>>, FormatInt(n)>>
      made == MkdirAll(fs, dir)
      withFields == writeMessageFields(made, dir, messageFields(messages[n]), 1)
  IN (IF cannotWrite(messages[n]) THEN {} ELSE {fs, made})
     \union {writeMatches(withFields, dir, messages[n], keys) :
               keys \in SUBSET (DOMAIN messages[n].Matches \ {""})}

\* writeMap fails on the n-th message of a list, the messages before it written:
\* a write fails, or the message has a match under the empty key
InWriteMapsErr ==
  /\ inPc = "writeMaps"
  /\ writesMap(inReq.Params)
  /\ \/ \E n \in 1..Len(inMsgs.approvedBy) :
          /\ \A i \in 1..(n - 1) : ~cannotWrite(inMsgs.approvedBy[i])
          /\ \E fs \in partlyWritten(
                         writeMap(files, SubSeq(inMsgs.approvedBy, 1, n - 1),
                                  "approval", 1),
                         inMsgs.approvedBy, "approval", n) :
                InWriteErrAfter(fs)
     \/ \E n \in 1..Len(inMsgs.reviewedBy) :
          /\ \A i \in 1..Len(inMsgs.approvedBy) : ~cannotWrite(inMsgs.approvedBy[i])
          /\ \A i \in 1..(n - 1) : ~cannotWrite(inMsgs.reviewedBy[i])
          /\ \E fs \in partlyWritten(
                         writeMap(writeMap(files, inMsgs.approvedBy, "approval", 1),
                                  SubSeq(inMsgs.reviewedBy, 1, n - 1), "review", 1),
                         inMsgs.reviewedBy, "review", n) :
                InWriteErrAfter(fs)

\* os.MkdirAll(sourcePath) and api.NewGitClient
InGitClientOk ==
  /\ inPc = "gitClient"
  /\ InStep("gitInit")
InGitClientErr ==
  /\ inPc = "gitClient"
  /\ InStepErr("git")

\* An operation of the git client is invoked and succeeds
GitCall(op, to) ==
  /\ gitCalls' = Append(gitCalls, op)
  /\ inPc' = to
  /\ UNCHANGED <<inReq, inApprovedBy, inReviewedBy, inIdx, inTotals, inRes, inErr,
                 inMsgs, inMetadata, files, inStdout>>
  /\ UNCHANGED <<checkVars, fnVars>>

\* An operation of the git client is invoked and fails
GitCallErr(op) ==
  /\ gitCalls' = Append(gitCalls, op)
  /\ InFail("git")
  /\ UNCHANGED <<inReq, inApprovedBy, inReviewedBy, inIdx, inTotals,
                 inMsgs, inMetadata, files, inStdout>>
  /\ UNCHANGED <<checkVars, fnVars>>

\* git.Init(*pull.Base.Ref)
GitInitOk ==
  /\ inPc = "gitInit"
  /\ GitCall("init", "gitPull")
GitInitErr ==
  /\ inPc = "gitInit"
  /\ GitCallErr("init")

\* git.Pull
GitPullOk ==
  /\ inPc = "gitPull"
  /\ GitCall("pull", "gitFetch")
GitPullErr ==
  /\ inPc = "gitPull"
  /\ GitCallErr("pull")

\* git.Fetch
GitFetchOk ==
  /\ inPc = "gitFetch"
  /\ GitCall("fetch", "integrate")
GitFetchErr ==
  /\ inPc = "gitFetch"
  /\ GitCallErr("fetch")

integrationOf_MergeByDefault(tool) ==
  CASE tool = "rebase" -> "rebase"
    [] tool \in {"merge", ""} -> "merge"
    [] tool = "checkout" -> "checkout"
    [] OTHER -> "invalid"

\* switch tool := req.Params.IntegrationTool: the operation of the case, or
\* "invalid" for the default case
integrationOf(tool) ==
  CASE tool \in {"rebase", ""} -> "rebase"
    [] tool = "merge" -> "merge"
    [] tool = "checkout" -> "checkout"
    [] OTHER -> "invalid"

\* git.Rebase, git.Merge or git.Checkout
IntegrateOk ==
  /\ integrationOf(inReq.Params.IntegrationTool) # "invalid"
  /\ inPc = "integrate"
  /\ GitCall(integrationOf(inReq.Params.IntegrationTool), "return")

IntegrateErr ==
  /\ integrationOf(inReq.Params.IntegrationTool) # "invalid"
  /\ inPc = "integrate"
  /\ GitCallErr(integrationOf(inReq.Params.IntegrationTool))

\* "invalid integration tool specified"
IntegrateInvalid ==
  /\ integrationOf(inReq.Params.IntegrationTool) = "invalid"
  /\ inPc = "integrate"
  /\ InStepErr("config")

\* return &InResponse{...}, nil
InReturn ==
  /\ inPc = "return"
  /\ inPc' = "done"
  /\ inRes' = "ok"
  /\ UNCHANGED <<inData, inErr>>
  /\ UNCHANGED <<checkVars, fnVars>>

\* doInCmd after In has returned the response: doOutput encodes it to
\* standard output
DoInOutput ==
  /\ inPc = "done"
  /\ inRes = "ok"
  /\ inStdout' = Append(inStdout, [Version |-> MarshalVersion(inReq.Version),
                                   Metadata |-> inMetadata])
  /\ inPc' = "exit"
  /\ UNCHANGED <<inReq, inApprovedBy, inReviewedBy, inIdx, inTotals, gitCalls,
                 inRes, inErr, inMsgs, inMetadata, files>>
  /\ UNCHANGED <<checkVars, fnVars>>

\* doInCmd after In has returned an error: logger.Fatal
InFatal ==
  /\ inPc = "done"
  /\ inRes = "error"
  /\ InStep("exit")

NextIn ==
  \/ InNewClientOk
  \/ InNewClientErr
  \/ InGetPullRequestOk
  \/ InGetPullRequestErr
  \/ InMkdirOk
  \/ InMkdirErr
  \/ InDecodeApprovalsOk
  \/ InDecodeApprovalsErr
  \/ InApprovalOk
  \/ InApprovalFetchErr
  \/ InApprovalInvalid
  \/ InApprovalsDone
  \/ InDecodeReviewsOk
  \/ InDecodeReviewsErr
  \/ InReviewOk
  \/ InReviewFetchErr
  \/ InReviewInvalid
  \/ InReviewsDone
  \/ InBuildMetadata
  \/ InWriteVersionOk
  \/ InWriteVersionErr
  \/ InWriteMetadataOk
  \/ InWriteMetadataErr
  \/ InWriteFieldsOk
  \/ InWriteFieldsErr
  \/ InNoMaps
  \/ InWriteMapsOk
  \/ InWriteMapsErr
  \/ InGitClientOk
  \/ InGitClientErr
  \/ GitInitOk
  \/ GitInitErr
  \/ GitPullOk
  \/ GitPullErr
  \/ GitFetchOk
  \/ GitFetchErr
  \/ IntegrateOk
  \/ IntegrateErr
  \/ IntegrateInvalid
  \/ InReturn
  \/ DoInOutput
  \/ InFatal

SpecIn == InitIn /\ [][NextIn]_vars

\* integration_tool is none of rebase, merge, checkout and the empty string
InvalidTool == inReq.Params.IntegrationTool \notin {"rebase", "merge", "checkout", ""}

\* C2: with an integration_tool that is none of the four, no operation of the
\* git client is ever invoked, and an In that gets through the steps before
\* the download fails with the configuration error.
C2_InvalidToolFailsBeforeGit ==
  (inPc # "idle" /\ InvalidTool) =>
     /\ gitCalls = <<>>
     /\ inPc = "done" => inRes = "error"

-----------------------------------------------------------------------------
(* What the claims about In speak of *)

\* In has accepted the Response: its Message is in the list
AcceptedApprovals == 1..Len(inMsgs.approvedBy)
AcceptedReviews == 1..Len(inMsgs.reviewedBy)

\* The Response carries a review id, a comment id
HasReviewID(r) == ReviewIDOfResponse(r) > 0
HasCommentID(r) == CommentIDOfResponse(r) > 0

\* The Message is the one of the review, of the comment the Response names
FetchedRight(r, message) ==
  /\ HasReviewID(r) /\ ~HasCommentID(r) => message.ReviewID = ReviewIDOfResponse(r)
  /\ HasCommentID(r) /\ ~HasReviewID(r) => message.CommentID = CommentIDOfResponse(r)

\* C11: every Response In accepts carries exactly one of a review id and a
\* comment id and is fetched as what it names; In never accepts a Response
\* with both ids, and fails on one with neither.
C11_ExactlyOneId ==
  /\ \A i \in AcceptedApprovals :
        /\ HasReviewID(inApprovedBy[i]) # HasCommentID(inApprovedBy[i])
        /\ FetchedRight(inApprovedBy[i], inMsgs.approvedBy[i])
  /\ \A i \in AcceptedReviews :
        /\ HasReviewID(inReviewedBy[i]) # HasCommentID(inReviewedBy[i])
        /\ FetchedRight(inReviewedBy[i], inMsgs.reviewedBy[i])

\* C12: with skip_download no operation of the git client is ever invoked;
\* without it an In that succeeds has invoked init, pull, fetch and then the
\* one operation integration_tool names, rebase for the empty string.
C12_GitOrder ==
  /\ inReq.Params.SkipDownload => gitCalls = <<>>
  /\ (inRes = "ok" /\ ~inReq.Params.SkipDownload) =>
        /\ Len(gitCalls) = 4
        /\ SubSeq(gitCalls, 1, 3) = <<"init", "pull", "fetch">>
        /\ inReq.Params.IntegrationTool \in {"", "rebase"} => gitCalls[4] = "rebase"
        /\ inReq.Params.IntegrationTool = "merge" => gitCalls[4] = "merge"
        /\ inReq.Params.IntegrationTool = "checkout" => gitCalls[4] = "checkout"
        /\ inReq.Params.IntegrationTool \in {"", "rebase", "merge", "checkout"}

\* In has succeeded with the empty integration_tool and has rebased
C12_Witness ==
  /\ inRes = "ok"
  /\ ~inReq.Params.SkipDownload
  /\ inReq.Params.IntegrationTool = ""
  /\ gitCalls = <<"init", "pull", "fetch", "rebase">>

FixedFieldNames ==
  << <<"pr_id">>, <<"pr_head_ref">>, <<"pr_head_sha">>, <<"pr_base_ref">>,
     <<"pr_base_sha">>, <<"total_approvals">>, <<"total_reviews">> >>

\* The Metadata holds a field of that name and value
HasField(name, value) ==
  \E j \in 1..Len(inMetadata) :
     inMetadata[j].Name = name /\ inMetadata[j].Value = value

\* The name <captureName>_<i>
CaptureFieldName(k, i) == (IF k = "" THEN <<>> ELSE <<k>>) \o <<"_">> \o FormatNat(i)

\* C13: the Metadata of a successful In begins with the seven fixed fields in
\* their order, total_approvals and total_reviews are the lengths of the
\* decoded lists, and every name captured from the message at position i of a
\* list has a field <captureName>_<i> with the captured value.
C13_MetadataFields ==
  inRes = "ok" =>
    /\ Len(inMetadata) >= 7
    /\ \A j \in 1..7 : inMetadata[j].Name = FixedFieldNames[j]
    /\ inMetadata[6].Value = FormatInt(Len(inApprovedBy))
    /\ inMetadata[7].Value = FormatInt(Len(inReviewedBy))
    /\ \A i \in AcceptedApprovals : \A k \in DOMAIN inMsgs.approvedBy[i].Matches :
          HasField(CaptureFieldName(k, i), inMsgs.approvedBy[i].Matches[k])
    /\ \A i \in AcceptedReviews : \A k \in DOMAIN inMsgs.reviewedBy[i].Matches :
          HasField(CaptureFieldName(k, i), inMsgs.reviewedBy[i].Matches[k])

\* In has succeeded on two approvals and a review, the second approval with a
\* capture, and the Metadata holds who_2
C13_Witness ==
  /\ inRes = "ok"
  /\ Len(inMsgs.approvedBy) = 2
  /\ Len(inMsgs.reviewedBy) = 1
  /\ "who" \in DOMAIN inMsgs.approvedBy[2].Matches
  /\ HasField(<<"who", "_", "2">>, inMsgs.approvedBy[2].Matches["who"])
  /\ inMetadata[6].Value = <<"2">>

\* C14: a group without a name adds nothing: no Message has a match under the
\* empty name and no field of the Metadata is named _<i>.
C14_UnnamedDropped ==
  /\ \A i \in AcceptedApprovals : "" \notin DOMAIN inMsgs.approvedBy[i].Matches
  /\ \A i \in AcceptedReviews : "" \notin DOMAIN inMsgs.reviewedBy[i].Matches
  /\ \A j \in 1..Len(inMetadata) : inMetadata[j].Name[1] # "_"

\* The configured patterns that capture the name from the body
Capturing(regex, body, k) ==
  {r \in 1..Len(regex) : k \in DOMAIN getParams(regex[r], body)}

\* The matches of the message are the merge of the captures of the patterns,
\* the later pattern winning
MergedInOrder(message, regex) ==
  /\ DOMAIN message.Matches =
       UNION {DOMAIN getParams(regex[r], message.Body) : r \in 1..Len(regex)}
  /\ \A k \in DOMAIN message.Matches :
        LET last == CHOOSE r \in Capturing(regex, message.Body, k) :
                      \A q \in Capturing(regex, message.Body, k) : q <= r
        IN message.Matches[k] = getParams(regex[last], message.Body)[k]
  /\ \A r \in 1..Len(regex) :
        FindStringSubmatch(regex[r], message.Body) = <<>> =>
           DOMAIN getParams(regex[r], message.Body) = {}

\* C15: the matches of a Message are the captures of all the configured
\* patterns in one map; of two patterns that capture the same name the later
\* one gives the value, and a pattern that does not match gives nothing.
C15_LaterPatternWins ==
  /\ \A i \in AcceptedApprovals :
        MergedInOrder(inMsgs.approvedBy[i], source.ApproverComments)
  /\ \A i \in AcceptedReviews :
        MergedInOrder(inMsgs.reviewedBy[i], source.ReviewerComments)

\* Two patterns capture who from the comment, "alice" by the first and "bob"
\* by the second, and the Message holds "bob"
C15_Witness ==
  /\ source.ApproverComments = <<ByWho, ForWho>>
  /\ Len(inMsgs.approvedBy) >= 1
  /\ inMsgs.approvedBy[1].CommentID > 0
  /\ getParams(ByWho, inMsgs.approvedBy[1].Body)["who"] = <<"alice">>
  /\ inMsgs.approvedBy[1].Matches["who"] = <<"bob">>

\* The last field of the Metadata of that name
LastFieldNamed(name) ==
  CHOOSE j \in 1..Len(inMetadata) :
     /\ inMetadata[j].Name = name
     /\ \A q \in 1..Len(inMetadata) : inMetadata[q].Name = name => q <= j

\* The directory of the i-th message under approval or review
MapDir(parent, i) == <<<<parent>>, FormatNat(i)>>

ApprovalsFetched ==
  /\ ~Unmarshal(inReq.Version.ApprovedBy).err
  /\ inApprovedBy = Unmarshal(inReq.Version.ApprovedBy).list
  /\ Len(inMsgs.approvedBy) = Len(inApprovedBy)

\* The reviews of the request are all decoded and fetched
ReviewsFetched ==
  /\ ~Unmarshal(inReq.Version.ReviewedBy).err
  /\ inReviewedBy = Unmarshal(inReq.Version.ReviewedBy).list
  /\ Len(inMsgs.reviewedBy) = Len(inReviewedBy)

\* C23: a file is in the output directory only once the pull request is
\* fetched and every Response of the approvals and of the reviews is decoded
\* and fetched; a review is decoded or fetched only once the approvals are all
\* fetched; and when In fails on the fetch of the pull request, on a decoding
\* or on the fetch of a message, it has written no file.
C23_FilesAfterEveryFetch ==
  /\ DOMAIN files # {} =>
        /\ GetPullRequest(github, PrIDOf(inReq)) # {}
        /\ ApprovalsFetched
        /\ ReviewsFetched
  /\ (inReviewedBy # <<>> \/ inMsgs.reviewedBy # <<>> \/ inPc = "reviews")
        => ApprovalsFetched
  /\ (inRes = "error" /\ inErr \in {"client", "hosting", "decode", "invalid"})
        => DOMAIN files = {}

\* Two approvals and a review fetched, and the files written
C23_Witness ==
  /\ inRes = "ok"
  /\ Len(inMsgs.approvedBy) = 2
  /\ Len(inMsgs.reviewedBy) = 1
  /\ <<<<"version.json">>>> \in DOMAIN files
  /\ <<<<"metadata.json">>>> \in DOMAIN files
  /\ <<<<"total_reviews">>>> \in DOMAIN files

====
